---- MODULE Spec2Model ----
\* Verification model of the empower-enb-agent protocol library:
\* byte primitives, buffer views, common header codec, TLV codec and the
\* blocking socket framer.
EXTENDS Integers, Sequences, FiniteSets, TLC

\* ---------------------------------------------------------------------
\* Bounds of the model (not program constants)
\* ---------------------------------------------------------------------
\* number of bytes of the message buffer the codec works on
BufSize == 56
\* largest number of TLVs added to one frame
MaxTlvs == 2

\* ---------------------------------------------------------------------
\* Program constants
\* ---------------------------------------------------------------------
versionOffset == 0
flagsOffset == 1
tsrcOffset == 2
lengthOffset == 4
elementIdOffset == 8
sequenceOffset == 16
transactionIdOffset == 20
totalLength == 24
PreambleSize == 8
flagsRequestOrResponseMask == 128
TLVtypeOffset == 0
TLVlengthOffset == 2
TLVdataOffset == 4
headerLength == 4
DecoderMinSize == 28
messageBufferStandardSizeBytes == 65500

TLV_NONE == 0
TLV_ERROR == 1
TLV_KEY_VALUE_STRING_PAIRS == 2
TLV_LIST_OF_TLV == 3
TLV_BINARY_DATA == 4
TLV_PERIODICITY == 5
TLV_CELL == 6

ECHO_SERVICE == 255
HELLO_SERVICE == 0
CAPABILITIES_SERVICE == 1

MessageClass ==
    {"REQUEST_SET", "REQUEST_ADD", "REQUEST_DEL", "REQUEST_GET",
     "RESPONSE_SUCCESS", "RESPONSE_FAILURE"}

\* ---------------------------------------------------------------------
\* Machine integers
\* ---------------------------------------------------------------------
\* A std::size_t value is kept as its two's-complement representative:
\* an integer n >= 0 stands for n, an integer n < 0 stands for 2^64 + n.
\* On representatives close to 0, addition and subtraction modulo 2^64 are
\* integer addition and subtraction; the unsigned order is UGt.
UGt(a, b) == IF (a < 0) = (b < 0) THEN a > b ELSE a < 0

\* A 32-bit value is a pair of 16-bit limbs <<high, low>>, a 64-bit value
\* four limbs, most significant first.
\* static_cast<std::uint32_t>(std::size_t) for a size that fits
SizeToU32(s) == <<(s \div 65536) % 65536, s % 65536>>

\* std::uint32_t -> std::size_t, for values below 2^31
U32ToSize(v) == v[1] * 65536 + v[2]

\* ---------------------------------------------------------------------
\* Byte primitives (network order) on a byte region m at address a
\* ---------------------------------------------------------------------
\* a reader taking the low byte first
PrimGetUint16At_LowByteFirst(m, a) == m[a] + m[a + 1] * 256

PrimGetUint16At(m, a) == m[a] * 256 + m[a + 1]

PrimGetUint32At(m, a) ==
    <<m[a] * 256 + m[a + 1], m[a + 2] * 256 + m[a + 3]>>

PrimGetUint64At(m, a) ==
    <<m[a] * 256 + m[a + 1], m[a + 2] * 256 + m[a + 3],
      m[a + 4] * 256 + m[a + 5], m[a + 6] * 256 + m[a + 7]>>

PrimSetUint16At(m, a, v) ==
    [m EXCEPT ![a] = (v \div 256) % 256, ![a + 1] = v % 256]

PrimSetUint32At(m, a, v) ==
    [m EXCEPT ![a] = (v[1] \div 256) % 256, ![a + 1] = v[1] % 256,
              ![a + 2] = (v[2] \div 256) % 256, ![a + 3] = v[2] % 256]

PrimSetUint64At(m, a, v) ==
    [m EXCEPT ![a] = (v[1] \div 256) % 256, ![a + 1] = v[1] % 256,
              ![a + 2] = (v[2] \div 256) % 256, ![a + 3] = v[2] % 256,
              ![a + 4] = (v[3] \div 256) % 256, ![a + 5] = v[3] % 256,
              ![a + 6] = (v[4] \div 256) % 256, ![a + 7] = v[4] % 256]

\* ---------------------------------------------------------------------
\* Buffer views: [base, size] over the byte region
\* ---------------------------------------------------------------------
View(base, size) == [base |-> base, size |-> size]

\* BufferView::throwExceptionIfOutOfBounds: TRUE when it throws
OutOfBounds(v, offset, length) == UGt(offset + length, v.size)

\* A chain of accessor calls is threaded through st = [ok, mem]: once a
\* call has thrown (ok = FALSE) the rest of the chain is not executed.
Start(m) == [ok |-> TRUE, mem |-> m]

SetUint8At(st, v, offset, val) ==
    IF ~st.ok THEN st
    ELSE IF OutOfBounds(v, offset, 1) THEN [st EXCEPT !.ok = FALSE]
    ELSE [st EXCEPT !.mem = [st.mem EXCEPT ![v.base + offset] = val % 256]]

\* setUint16At writing from the start of the region, not of the view
SetUint16At_AtRegionStart(st, v, offset, val) ==
    IF ~st.ok THEN st
    ELSE IF OutOfBounds(v, offset, 2) THEN [st EXCEPT !.ok = FALSE]
    ELSE [st EXCEPT !.mem = PrimSetUint16At(st.mem, offset, val)]

SetUint16At(st, v, offset, val) ==
    IF ~st.ok THEN st
    ELSE IF OutOfBounds(v, offset, 2) THEN [st EXCEPT !.ok = FALSE]
    ELSE [st EXCEPT !.mem = PrimSetUint16At(st.mem, v.base + offset, val)]

SetUint32At(st, v, offset, val) ==
    IF ~st.ok THEN st
    ELSE IF OutOfBounds(v, offset, 4) THEN [st EXCEPT !.ok = FALSE]
    ELSE [st EXCEPT !.mem = PrimSetUint32At(st.mem, v.base + offset, val)]

SetUint64At(st, v, offset, val) ==
    IF ~st.ok THEN st
    ELSE IF OutOfBounds(v, offset, 8) THEN [st EXCEPT !.ok = FALSE]
    ELSE [st EXCEPT !.mem = PrimSetUint64At(st.mem, v.base + offset, val)]

\* std::copy of the bytes of s to address a
CopyBytes(m, a, s) ==
    [i \in DOMAIN m |->
        IF i >= a /\ i < a + Len(s) THEN s[i - a + 1] ELSE m[i]]

SetCStringAt(st, v, offset, str) ==
    IF ~st.ok THEN st
    ELSE IF OutOfBounds(v, offset, Len(str) + 1) THEN [st EXCEPT !.ok = FALSE]
    ELSE [st EXCEPT !.mem =
            CopyBytes(st.mem, v.base + offset, Append(str, 0))]

\* BufferView::copyTo(destination), the source being the byte string s
CopyTo(st, v, s) ==
    IF ~st.ok THEN st
    ELSE IF v.size < Len(s) THEN [st EXCEPT !.ok = FALSE]
    ELSE [st EXCEPT !.mem = CopyBytes(st.mem, v.base, s)]

\* the bytes of a view, as a string
ViewBytes(m, v) == [i \in 1..v.size |-> m[v.base + i - 1]]

\* the bytes of the view v that lie in the region m: all of them, but for
\* a view whose size wrapped (a negative representative), which has the
\* rest of the region
ScanSize(m, v) ==
    IF v.size < 0 THEN Cardinality(DOMAIN m) - v.base ELSE v.size

\* BufferView::getCStringAt: [ok, str]; on a view whose size wrapped the
\* scan for the NUL goes on to the end of the region
GetCStringAt(m, v, offset) ==
    IF OutOfBounds(v, offset, 0) THEN [ok |-> FALSE, str |-> <<>>]
    ELSE LET nuls == {e \in offset..(ScanSize(m, v) - 1) : m[v.base + e] = 0}
         IN IF nuls = {} THEN [ok |-> FALSE, str |-> <<>>]
            ELSE LET end == CHOOSE e \in nuls : \A f \in nuls : e <= f
                 IN [ok |-> TRUE,
                     str |-> [i \in 1..(end - offset) |->
                                 m[v.base + offset + i - 1]]]

\* ---------------------------------------------------------------------
\* Common header encoder (CommonHeaderEncoder), over the view hv
\* ---------------------------------------------------------------------
EncVersion(m, hv, version) ==
    [m EXCEPT ![hv.base + versionOffset] = version % 256]

\* CommonHeaderEncoder::cellIdentifier is declared in protocol.hh and called
\* by setDefaults, but its body is not part of the sources; the header
\* layout has no cell identifier field, so it changes no header byte.
EncCellIdentifier(m, hv, v) == m

EncSequence(m, hv, v) == PrimSetUint32At(m, hv.base + sequenceOffset, v)

EncElementId(m, hv, v) == PrimSetUint64At(m, hv.base + elementIdOffset, v)

EncTransactionId(m, hv, v) ==
    PrimSetUint32At(m, hv.base + transactionIdOffset, v)

EncTotalLengthBytes(m, hv, s) ==
    PrimSetUint32At(m, hv.base + lengthOffset, SizeToU32(s))

SetDefaults(m, hv) ==
    EncTransactionId(
        EncElementId(
            EncSequence(
                EncCellIdentifier(EncVersion(m, hv, 2), hv, 0),
                hv, <<0, 0>>),
            hv, <<0, 0, 0, 0>>),
        hv, <<0, 0>>)

\* the switch of CommonHeaderEncoder::messageClass
IsRequest(mc) ==
    mc \in {"REQUEST_SET", "REQUEST_ADD", "REQUEST_DEL", "REQUEST_GET"}

\* the switch giving RESPONSE_FAILURE the bits 01
HighBits_FailureAsOne(mc) ==
    CASE mc = "REQUEST_SET" -> 0
      [] mc = "REQUEST_ADD" -> 1
      [] mc = "REQUEST_DEL" -> 2
      [] mc = "REQUEST_GET" -> 3
      [] mc = "RESPONSE_SUCCESS" -> 0
      [] mc = "RESPONSE_FAILURE" -> 1

HighBits(mc) ==
    CASE mc = "REQUEST_SET" -> 0
      [] mc = "REQUEST_ADD" -> 1
      [] mc = "REQUEST_DEL" -> 2
      [] mc = "REQUEST_GET" -> 3
      [] mc = "RESPONSE_SUCCESS" -> 0
      [] mc = "RESPONSE_FAILURE" -> 2

\* a messageClass adding the class bits to the ts_rc found
EncMessageClass_AddsToTsRc(m, hv, mc) ==
    LET savedFlags == m[hv.base + flagsOffset] % 128
        m1 == [m EXCEPT ![hv.base + flagsOffset] =
                 IF IsRequest(mc) THEN savedFlags ELSE savedFlags + 128]
    IN PrimSetUint16At(m1, hv.base + tsrcOffset,
                       (PrimGetUint16At(m, hv.base + tsrcOffset)
                        + HighBits(mc) * 16384) % 65536)

\* CommonHeaderEncoder::messageClass, for a valid message class
EncMessageClass(m, hv, mc) ==
    LET savedFlags == m[hv.base + flagsOffset] % 128
        savedBits == PrimGetUint16At(m, hv.base + tsrcOffset) % 16384
        m1 == [m EXCEPT ![hv.base + flagsOffset] =
                 IF IsRequest(mc) THEN savedFlags ELSE savedFlags + 128]
    IN PrimSetUint16At(m1, hv.base + tsrcOffset,
                       (savedBits + HighBits(mc) * 16384) % 65536)

\* an entityClass storing the entity class alone
EncEntityClass_DropsClassBits(m, hv, ec) ==
    PrimSetUint16At(m, hv.base + tsrcOffset, ec % 16384)

\* CommonHeaderEncoder::entityClass
EncEntityClass(m, hv, ec) ==
    LET savedBits ==
            (PrimGetUint16At(m, hv.base + tsrcOffset) \div 16384) * 16384
    IN PrimSetUint16At(m, hv.base + tsrcOffset, (ec % 16384) + savedBits)

\* ---------------------------------------------------------------------
\* Common header decoder (CommonHeaderDecoder), over the view hv
\* ---------------------------------------------------------------------
DecVersion(m, hv) == m[hv.base + versionOffset]

DecFlags(m, hv) == m[hv.base + flagsOffset]

DecTsRc(m, hv) == PrimGetUint16At(m, hv.base + tsrcOffset)

DecTotalLengthBytes(m, hv) == PrimGetUint32At(m, hv.base + lengthOffset)

DecSequence(m, hv) == PrimGetUint32At(m, hv.base + sequenceOffset)

DecElementId(m, hv) == PrimGetUint64At(m, hv.base + elementIdOffset)

DecTransactionId(m, hv) == PrimGetUint32At(m, hv.base + transactionIdOffset)

\* CommonHeaderDecoder::messageClass
DecMessageClass(m, hv) ==
    IF (DecFlags(m, hv) \div flagsRequestOrResponseMask) % 2 = 0
    THEN LET op == (DecTsRc(m, hv) \div 8192) % 4
         IN CASE op = 0 -> "REQUEST_SET"
              [] op = 1 -> "REQUEST_ADD"
              [] op = 2 -> "REQUEST_DEL"
              [] op = 3 -> "REQUEST_GET"
    ELSE LET op == (DecTsRc(m, hv) \div 16384) % 256
         IN IF op = 0 THEN "RESPONSE_SUCCESS" ELSE "RESPONSE_FAILURE"

\* CommonHeaderDecoder::entityClass
DecEntityClass(m, hv) == DecTsRc(m, hv) % 16384

\* a check that lets every view holding the 24 header bytes through
DecoderSuitable_HeaderOnly(m, hv) ==
    IF hv.size < totalLength THEN "length_error"
    ELSE IF DecVersion(m, hv) # 2 THEN "runtime_error"
    ELSE "ok"

\* CommonHeaderDecoder::throwIfBufferIsUnsuitable: "ok" or the error raised
DecoderSuitable(m, hv) ==
    IF hv.size < DecoderMinSize THEN "length_error"
    ELSE IF DecVersion(m, hv) # 2 THEN "runtime_error"
    ELSE "ok"

\* CommonHeaderEncoder::throwIfBufferIsUnsuitable
EncoderSuitable(hv) == hv.size >= totalLength

\* ---------------------------------------------------------------------
\* Concrete TLV value objects (tlvs.hh) and their encode / decode
\* ---------------------------------------------------------------------
\* A TLV object is a record with its type and its fields; strings and
\* binary data are sequences of bytes.
TLVError(errcode, message) ==
    [type |-> TLV_ERROR, errcode |-> errcode, message |-> message]

TLVBinaryData(data) == [type |-> TLV_BINARY_DATA, data |-> data]

TLVKeyValueStringPairs(value) ==
    [type |-> TLV_KEY_VALUE_STRING_PAIRS, value |-> value]

TLVList(tlvType, count) ==
    [type |-> TLV_LIST_OF_TLV, tlvType |-> tlvType, count |-> count]

TLVPeriodicityMs(ms) == [type |-> TLV_PERIODICITY, milliseconds |-> ms]

TLVCell(pci, dl, ul, nPrb) ==
    [type |-> TLV_CELL, pci |-> pci, dlEarfcn |-> dl, ulEarfcn |-> ul,
     nPrb |-> nPrb]

\* the object a default constructor gives
FreshTLV(type) ==
    CASE type = TLV_ERROR -> TLVError(0, <<>>)
      [] type = TLV_BINARY_DATA -> TLVBinaryData(<<>>)
      [] type = TLV_KEY_VALUE_STRING_PAIRS -> TLVKeyValueStringPairs(<<>>)
      [] type = TLV_LIST_OF_TLV -> TLVList(TLV_NONE, 0)
      [] type = TLV_PERIODICITY -> TLVPeriodicityMs(<<0, 0>>)
      [] type = TLV_CELL -> TLVCell(0, <<0, 0>>, <<0, 0>>, 0)

\* first pass of TLVKeyValueStringPairs::encode
RECURSIVE RequiredSize(_)
RequiredSize(pairs) ==
    IF pairs = <<>> THEN 0
    ELSE Len(pairs[1][1]) + 1 + Len(pairs[1][2]) + 1 + RequiredSize(Tail(pairs))

\* second pass of TLVKeyValueStringPairs::encode
RECURSIVE EncodePairs(_, _, _, _)
EncodePairs(st, v, offset, pairs) ==
    IF pairs = <<>> THEN st
    ELSE LET st1 == SetCStringAt(st, v, offset, pairs[1][1])
             o1 == offset + Len(pairs[1][1]) + 1
             st2 == SetCStringAt(st1, v, o1, pairs[1][2])
         IN EncodePairs(st2, v, o1 + Len(pairs[1][2]) + 1, Tail(pairs))

\* TLVBase::encode into the view v of the region m: [ok, mem, len]; when
\* ok is FALSE the call threw and mem holds what was written before.
Encode(tlv, m, v) ==
    LET st ==
          CASE tlv.type = TLV_ERROR ->
                 SetCStringAt(SetUint16At(Start(m), v, 0, tlv.errcode),
                              v, 2, tlv.message)
            [] tlv.type = TLV_BINARY_DATA -> CopyTo(Start(m), v, tlv.data)
            [] tlv.type = TLV_KEY_VALUE_STRING_PAIRS ->
                 IF RequiredSize(tlv.value) > v.size
                 THEN [ok |-> FALSE, mem |-> m]
                 ELSE EncodePairs(Start(m), v, 0, tlv.value)
            [] tlv.type = TLV_LIST_OF_TLV ->
                 SetUint16At(SetUint16At(Start(m), v, 0, tlv.tlvType),
                             v, 2, tlv.count)
            [] tlv.type = TLV_PERIODICITY ->
                 SetUint32At(Start(m), v, 0, tlv.milliseconds)
            [] tlv.type = TLV_CELL ->
                 SetUint8At(
                     SetUint32At(
                         SetUint32At(SetUint16At(Start(m), v, 0, tlv.pci),
                                     v, 2, tlv.dlEarfcn),
                         v, 6, tlv.ulEarfcn),
                     v, 10, tlv.nPrb)
        len ==
          CASE tlv.type = TLV_ERROR -> 2 + (Len(tlv.message) + 1)
            [] tlv.type = TLV_BINARY_DATA -> Len(tlv.data)
            [] tlv.type = TLV_KEY_VALUE_STRING_PAIRS -> RequiredSize(tlv.value)
            [] tlv.type = TLV_LIST_OF_TLV -> 4
            [] tlv.type = TLV_PERIODICITY -> 4
            [] tlv.type = TLV_CELL -> 11
    IN [ok |-> st.ok, mem |-> st.mem, len |-> len]

RECURSIVE DecodePairs(_, _, _, _)
\* a decode loop that takes a key at the end of the view for a pair
DecodePairs_KeyAlone(m, v, offset, acc) ==
    IF ~(offset < v.size) THEN [ok |-> TRUE, value |-> acc, offset |-> offset]
    ELSE LET a == GetCStringAt(m, v, offset)
             o1 == offset + Len(a.str) + 1
             b == GetCStringAt(m, v, o1)
         IN IF ~a.ok
            THEN [ok |-> FALSE, value |-> acc, offset |-> offset]
            ELSE IF ~b.ok
            THEN [ok |-> TRUE, value |-> Append(acc, <<a.str, <<>>>>),
                  offset |-> o1]
            ELSE DecodePairs(m, v, o1 + Len(b.str) + 1,
                             Append(acc, <<a.str, b.str>>))

\* the loop of TLVKeyValueStringPairs::decode: [ok, value, offset]
DecodePairs(m, v, offset, acc) ==
    IF ~(offset < v.size) THEN [ok |-> TRUE, value |-> acc, offset |-> offset]
    ELSE LET a == GetCStringAt(m, v, offset)
             o1 == offset + Len(a.str) + 1
             b == GetCStringAt(m, v, o1)
         IN IF ~a.ok \/ ~b.ok
            THEN [ok |-> FALSE, value |-> acc, offset |-> offset]
            ELSE DecodePairs(m, v, o1 + Len(b.str) + 1,
                             Append(acc, <<a.str, b.str>>))

\* TLVBase::decode of the view v into the object obj: [ok, tlv, len]; when
\* ok is FALSE the call threw and tlv holds the fields assigned before.
Decode(obj, m, v) ==
    CASE obj.type = TLV_ERROR ->
           IF OutOfBounds(v, 0, 2) THEN [ok |-> FALSE, tlv |-> obj, len |-> 0]
           ELSE LET o1 == [obj EXCEPT !.errcode = PrimGetUint16At(m, v.base)]
                    s == GetCStringAt(m, v, 2)
                IN IF ~s.ok THEN [ok |-> FALSE, tlv |-> o1, len |-> 0]
                   ELSE [ok |-> TRUE, tlv |-> [o1 EXCEPT !.message = s.str],
                         len |-> 2 + (Len(s.str) + 1)]
      [] obj.type = TLV_BINARY_DATA ->
           IF UGt(v.size, messageBufferStandardSizeBytes)
           THEN [ok |-> FALSE, tlv |-> [obj EXCEPT !.data = <<>>], len |-> 0]
           ELSE [ok |-> TRUE, tlv |-> [obj EXCEPT !.data = ViewBytes(m, v)],
                 len |-> v.size]
      [] obj.type = TLV_KEY_VALUE_STRING_PAIRS ->
           LET r == DecodePairs(m, v, 0, <<>>)
           IN [ok |-> r.ok, tlv |-> [obj EXCEPT !.value = r.value],
               len |-> r.offset]
      [] obj.type = TLV_LIST_OF_TLV ->
           IF OutOfBounds(v, 0, 2) THEN [ok |-> FALSE, tlv |-> obj, len |-> 0]
           ELSE LET o1 == [obj EXCEPT !.tlvType = PrimGetUint16At(m, v.base)]
                IN IF OutOfBounds(v, 2, 2)
                   THEN [ok |-> FALSE, tlv |-> o1, len |-> 0]
                   ELSE [ok |-> TRUE,
                         tlv |-> [o1 EXCEPT !.count =
                                    PrimGetUint16At(m, v.base + 2)],
                         len |-> 4]
      [] obj.type = TLV_PERIODICITY ->
           IF OutOfBounds(v, 0, 4) THEN [ok |-> FALSE, tlv |-> obj, len |-> 0]
           ELSE [ok |-> TRUE,
                 tlv |-> [obj EXCEPT !.milliseconds =
                            PrimGetUint32At(m, v.base)],
                 len |-> 4]
      [] obj.type = TLV_CELL ->
           IF OutOfBounds(v, 0, 2) THEN [ok |-> FALSE, tlv |-> obj, len |-> 0]
           ELSE LET o1 == [obj EXCEPT !.pci = PrimGetUint16At(m, v.base)]
                IN IF OutOfBounds(v, 2, 4)
                   THEN [ok |-> FALSE, tlv |-> o1, len |-> 0]
                   ELSE LET o2 == [o1 EXCEPT !.dlEarfcn =
                                     PrimGetUint32At(m, v.base + 2)]
                        IN IF OutOfBounds(v, 6, 4)
                           THEN [ok |-> FALSE, tlv |-> o2, len |-> 0]
                           ELSE LET o3 == [o2 EXCEPT !.ulEarfcn =
                                             PrimGetUint32At(m, v.base + 6)]
                                IN IF OutOfBounds(v, 10, 1)
                                   THEN [ok |-> FALSE, tlv |-> o3, len |-> 0]
                                   ELSE [ok |-> TRUE,
                                         tlv |-> [o3 EXCEPT !.nPrb =
                                                    m[v.base + 10]],
                                         len |-> 11]

\* ---------------------------------------------------------------------
\* MessageEncoder / MessageDecoder operations (tlvencoding.cpp)
\* ---------------------------------------------------------------------
\* an add that moves the cursor whether or not the TLV was written
MessageEncoderAdd_MovesAlways(m, buf, offset, tlv) ==
    IF UGt(offset, buf.size) \/ UGt(TLVdataOffset, buf.size - offset)
    THEN [ok |-> FALSE, mem |-> m, offset |-> offset]
    ELSE LET subBuffer_TL == View(buf.base + offset, buf.size - offset)
             subBuffer_V == View(subBuffer_TL.base + TLVdataOffset,
                                 subBuffer_TL.size - TLVdataOffset)
             e == Encode(tlv, m, subBuffer_V)
             tlvTotalLength == headerLength + e.len
             st == SetUint16At(
                       SetUint16At([ok |-> e.ok, mem |-> e.mem],
                                   subBuffer_TL, TLVtypeOffset, tlv.type),
                       subBuffer_TL, TLVlengthOffset, tlvTotalLength)
         IN [ok |-> st.ok, mem |-> st.mem, offset |-> offset + tlvTotalLength]

\* MessageEncoder::add: [ok, mem, offset]
MessageEncoderAdd(m, buf, offset, tlv) ==
    IF UGt(offset, buf.size) \/ UGt(TLVdataOffset, buf.size - offset)
    THEN [ok |-> FALSE, mem |-> m, offset |-> offset]
    ELSE LET subBuffer_TL == View(buf.base + offset, buf.size - offset)
             subBuffer_V == View(subBuffer_TL.base + TLVdataOffset,
                                 subBuffer_TL.size - TLVdataOffset)
             e == Encode(tlv, m, subBuffer_V)
             tlvTotalLength == headerLength + e.len
             st == SetUint16At(
                       SetUint16At([ok |-> e.ok, mem |-> e.mem],
                                   subBuffer_TL, TLVtypeOffset, tlv.type),
                       subBuffer_TL, TLVlengthOffset, tlvTotalLength)
         IN [ok |-> st.ok, mem |-> st.mem,
             offset |-> IF st.ok THEN offset + tlvTotalLength ELSE offset]

\* an end() storing the length of the TLVs alone
MessageEncoderEnd_PayloadOnly(m, buf, offset) ==
    EncTotalLengthBytes(m, buf, offset - totalLength)

\* MessageEncoder::end
MessageEncoderEnd(m, buf, offset) == EncTotalLengthBytes(m, buf, offset)

\* MessageEncoder::data: the view returned
MessageEncoderData(buf, offset) == View(buf.base, offset)

\* TLVBase::decode of a view whose size wrapped reads on after the end of
\* the region: the loop of TLVKeyValueStringPairs::decode never sees the
\* end of such a view, and getCStringAt of TLVError::decode leaves the
\* region when no NUL is left in it
DecodeOverruns(obj, m, v) ==
    /\ v.size < 0
    /\ \/ obj.type = TLV_KEY_VALUE_STRING_PAIRS
       \/ /\ obj.type = TLV_ERROR
          /\ \A e \in 2..(ScanSize(m, v) - 1) : m[v.base + e] # 0

\* a get that steps over a TLV of another type than the object's
MessageDecoderGet_SkipsOnMismatch(m, buf, offset, obj) ==
    IF OutOfBounds(buf, offset, headerLength)
    THEN [err |-> "OutOfRange", tlv |-> obj, offset |-> offset]
    ELSE LET tlvType == PrimGetUint16At(m, buf.base + offset + TLVtypeOffset)
             tlvLength ==
                 PrimGetUint16At(m, buf.base + offset + TLVlengthOffset)
         IN IF tlvType # obj.type
            THEN [err |-> "TypeMismatch", tlv |-> obj,
                  offset |-> offset + tlvLength]
            ELSE IF OutOfBounds(buf, offset + headerLength,
                                tlvLength - headerLength)
            THEN [err |-> "OutOfRange", tlv |-> obj, offset |-> offset]
            ELSE LET subBuffer_V == View(buf.base + offset + headerLength,
                                         tlvLength - headerLength)
                     d == Decode(obj, m, subBuffer_V)
                 IN IF DecodeOverruns(obj, m, subBuffer_V)
                    THEN [err |-> "Overrun", tlv |-> obj, offset |-> offset]
                    ELSE IF ~d.ok
                    THEN [err |-> "DecodeError", tlv |-> d.tlv,
                          offset |-> offset]
                    ELSE IF headerLength + d.len # tlvLength
                    THEN [err |-> "Malformed", tlv |-> d.tlv,
                          offset |-> offset]
                    ELSE [err |-> "ok", tlv |-> d.tlv,
                          offset |-> offset + tlvLength]

\* a get that does not compare the decoded length with the declared one
MessageDecoderGet_TrustsDecode(m, buf, offset, obj) ==
    IF OutOfBounds(buf, offset, headerLength)
    THEN [err |-> "OutOfRange", tlv |-> obj, offset |-> offset]
    ELSE LET tlvType == PrimGetUint16At(m, buf.base + offset + TLVtypeOffset)
             tlvLength ==
                 PrimGetUint16At(m, buf.base + offset + TLVlengthOffset)
         IN IF tlvType # obj.type
            THEN [err |-> "TypeMismatch", tlv |-> obj, offset |-> offset]
            ELSE IF OutOfBounds(buf, offset + headerLength,
                                tlvLength - headerLength)
            THEN [err |-> "OutOfRange", tlv |-> obj, offset |-> offset]
            ELSE LET subBuffer_V == View(buf.base + offset + headerLength,
                                         tlvLength - headerLength)
                     d == Decode(obj, m, subBuffer_V)
                 IN IF DecodeOverruns(obj, m, subBuffer_V)
                    THEN [err |-> "Overrun", tlv |-> obj, offset |-> offset]
                    ELSE IF ~d.ok
                    THEN [err |-> "DecodeError", tlv |-> d.tlv,
                          offset |-> offset]
                    ELSE [err |-> "ok", tlv |-> d.tlv,
                          offset |-> offset + tlvLength]

\* MessageDecoder::get: [err, tlv, offset], err = "ok" on success
MessageDecoderGet(m, buf, offset, obj) ==
    IF OutOfBounds(buf, offset, headerLength)
    THEN [err |-> "OutOfRange", tlv |-> obj, offset |-> offset]
    ELSE LET tlvType == PrimGetUint16At(m, buf.base + offset + TLVtypeOffset)
             tlvLength ==
                 PrimGetUint16At(m, buf.base + offset + TLVlengthOffset)
         IN IF tlvType # obj.type
            THEN [err |-> "TypeMismatch", tlv |-> obj, offset |-> offset]
            ELSE IF OutOfBounds(buf, offset + headerLength,
                                tlvLength - headerLength)
            THEN [err |-> "OutOfRange", tlv |-> obj, offset |-> offset]
            ELSE LET subBuffer_V == View(buf.base + offset + headerLength,
                                         tlvLength - headerLength)
                     d == Decode(obj, m, subBuffer_V)
                 IN IF DecodeOverruns(obj, m, subBuffer_V)
                    THEN [err |-> "Overrun", tlv |-> obj, offset |-> offset]
                    ELSE IF ~d.ok
                    THEN [err |-> "DecodeError", tlv |-> d.tlv,
                          offset |-> offset]
                    ELSE IF headerLength + d.len # tlvLength
                    THEN [err |-> "Malformed", tlv |-> d.tlv,
                          offset |-> offset]
                    ELSE [err |-> "ok", tlv |-> d.tlv,
                          offset |-> offset + tlvLength]

\* MessageDecoder::getNextTLVType: the type returned
MessageDecoderGetNextTLVType(m, buf, offset) ==
    IF ~(offset + headerLength < buf.size) THEN TLV_NONE
    ELSE LET tlvType == PrimGetUint16At(m, buf.base + offset + TLVtypeOffset)
             tlvLength ==
                 PrimGetUint16At(m, buf.base + offset + TLVlengthOffset)
         IN IF offset + tlvLength > buf.size THEN TLV_NONE ELSE tlvType

\* ---------------------------------------------------------------------
\* State
\* ---------------------------------------------------------------------
VARIABLES
    mem,        \* the bytes of the message buffer (region), index 0..
    encPhase,   \* "none", "open" (adds since the last end) or "closed"
    encOffset,  \* MessageEncoder::mCurrentOffset
    hdr,        \* the header values given to the setters since construction
                \* (mc "unset", ec -1: setter not called)
    added,      \* the TLV objects added successfully, in order
    decPhase,   \* "none", "open", or the error of the decoder constructor
    decSize,    \* size of the view the decoder was constructed over
    decOffset,  \* MessageDecoder::mCurrentOffset
    got,        \* the TLV objects decoded successfully, in order
    lastGet,    \* [err, type] of the last MessageDecoder::get
    call,       \* input of the function applied last (function specs)
    ret,        \* its result
    mConnectionFD,        \* IO::mConnectionFD, -1 when there is none
    mListeningSocketFD,   \* IO::mListeningSocketFD, -1 when there is none
    openFds,    \* the descriptors open in the process
    pending,    \* peers connected to the listening socket, not yet accepted
    stream,     \* the bytes sent by the peer and not yet read
    peerClosed, \* the peer has shut its end of the connection
    wire,       \* the frames the peer sent, in order
    rd,         \* the locals of the running IO::readMessage
    rbuf,       \* the bytes of readBuffer, and of the memory just below it
    results,    \* what each readMessage call gave, in order
    mPool,      \* PacketBufferSizedPool::mPool, as its number of elements
    mFree,      \* PacketBufferSizedPool::mFree, the elements by their index
    views       \* the live views: for each the element its mBufferPtr owns

vars ==
    <<mem, encPhase, encOffset, hdr, added, decPhase, decSize, decOffset,
      got, lastGet, call, ret, mConnectionFD, mListeningSocketFD, openFds,
      pending, stream, peerClosed, wire, rd, rbuf, results, mPool, mFree,
      views>>

ioVars ==
    <<mConnectionFD, mListeningSocketFD, openFds, pending, stream,
      peerClosed, wire, rd, rbuf, results>>

encVars == <<encPhase, encOffset, hdr, added>>
decVars == <<decPhase, decSize, decOffset, got, lastGet>>
fnVars == <<call, ret>>
poolVars == <<mPool, mFree, views>>

NoGet == [err |-> "none", type |-> TLV_NONE]

NoCall == [fn |-> "none"]

NoHeader ==
    [mc |-> "unset", ec |-> -1, eid |-> <<0, 0, 0, 0>>,
     seq |-> <<0, 0>>, xid |-> <<0, 0>>]

EncIdle ==
    encPhase = "none" /\ encOffset = 0 /\ hdr = NoHeader /\ added = <<>>

DecIdle ==
    /\ decPhase = "none" /\ decSize = 0 /\ decOffset = 0
    /\ got = <<>> /\ lastGet = NoGet

DecReset ==
    /\ decPhase' = "none" /\ decSize' = 0 /\ decOffset' = 0
    /\ got' = <<>> /\ lastGet' = NoGet

FnIdle == call = NoCall /\ ret = NoCall

\* the result of an earlier call is dropped
FnReset == call' = NoCall /\ ret' = NoCall

NoRead ==
    [pc |-> "idle", bytesRead |-> 0, version |-> 0, messageLength |-> 0,
     transients |-> 0, consumed |-> 0, log |-> {}]

IoIdle ==
    /\ mConnectionFD = -1 /\ mListeningSocketFD = -1 /\ openFds = {}
    /\ pending = 0 /\ stream = <<>> /\ peerClosed = FALSE /\ wire = <<>>
    /\ rd = NoRead /\ rbuf = <<>> /\ results = <<>>

PoolIdle == mPool = 0 /\ mFree = <<>> /\ views = <<>>

\* the message buffer as a view
Buffer == View(0, BufSize)

\* previous contents of a buffer handed to an encoder
Fills == {0, 255}

Filled(f) == [i \in 0..(BufSize - 1) |-> f]

\* ---------------------------------------------------------------------
\* Encoder and decoder operations
\* ---------------------------------------------------------------------
\* MessageEncoder::MessageEncoder over the whole buffer
NewEncoder ==
    /\ EncoderSuitable(Buffer)
    /\ mem' = SetDefaults(mem, Buffer)
    /\ encPhase' = "open"
    /\ encOffset' = totalLength
    /\ hdr' = NoHeader
    /\ added' = <<>>
    /\ DecReset
    /\ UNCHANGED fnVars
    /\ UNCHANGED <<ioVars, poolVars>>

HeaderMessageClass(mc) ==
    /\ encPhase # "none"
    /\ mem' = EncMessageClass(mem, Buffer, mc)
    /\ hdr' = [hdr EXCEPT !.mc = mc]
    /\ DecReset
    /\ UNCHANGED <<encPhase, encOffset, added, call, ret>>
    /\ UNCHANGED <<ioVars, poolVars>>

HeaderEntityClass(ec) ==
    /\ encPhase # "none"
    /\ mem' = EncEntityClass(mem, Buffer, ec)
    /\ hdr' = [hdr EXCEPT !.ec = ec]
    /\ DecReset
    /\ UNCHANGED <<encPhase, encOffset, added, call, ret>>
    /\ UNCHANGED <<ioVars, poolVars>>

HeaderElementId(v) ==
    /\ encPhase # "none"
    /\ mem' = EncElementId(mem, Buffer, v)
    /\ hdr' = [hdr EXCEPT !.eid = v]
    /\ DecReset
    /\ UNCHANGED <<encPhase, encOffset, added, call, ret>>
    /\ UNCHANGED <<ioVars, poolVars>>

HeaderSequence(v) ==
    /\ encPhase # "none"
    /\ mem' = EncSequence(mem, Buffer, v)
    /\ hdr' = [hdr EXCEPT !.seq = v]
    /\ DecReset
    /\ UNCHANGED <<encPhase, encOffset, added, call, ret>>
    /\ UNCHANGED <<ioVars, poolVars>>

HeaderTransactionId(v) ==
    /\ encPhase # "none"
    /\ mem' = EncTransactionId(mem, Buffer, v)
    /\ hdr' = [hdr EXCEPT !.xid = v]
    /\ DecReset
    /\ UNCHANGED <<encPhase, encOffset, added, call, ret>>
    /\ UNCHANGED <<ioVars, poolVars>>

\* MessageEncoder::add; a failed add leaves the cursor where it was
Add(tlv) ==
    /\ encPhase # "none"
    /\ Len(added) < MaxTlvs
    /\ LET r == MessageEncoderAdd(mem, Buffer, encOffset, tlv)
       IN /\ mem' = r.mem
          /\ encOffset' = r.offset
          /\ added' = IF r.ok THEN Append(added, tlv) ELSE added
          /\ encPhase' = IF r.ok THEN "open" ELSE encPhase
    /\ DecReset
    /\ FnReset
    /\ UNCHANGED hdr
    /\ UNCHANGED <<ioVars, poolVars>>

\* MessageEncoder::end
End ==
    /\ encPhase # "none"
    /\ mem' = MessageEncoderEnd(mem, Buffer, encOffset)
    /\ encPhase' = "closed"
    /\ DecReset
    /\ FnReset
    /\ UNCHANGED <<encOffset, hdr, added>>
    /\ UNCHANGED <<ioVars, poolVars>>

\* MessageDecoder::MessageDecoder over the view data() of a finished frame
NewDecoder ==
    /\ encPhase = "closed"
    /\ decPhase = "none"
    /\ LET v == MessageEncoderData(Buffer, encOffset)
           s == DecoderSuitable(mem, v)
       IN /\ decPhase' = IF s = "ok" THEN "open" ELSE s
          /\ decSize' = v.size
          /\ decOffset' = totalLength
    /\ got' = <<>>
    /\ lastGet' = NoGet
    /\ UNCHANGED <<mem, encPhase, encOffset, hdr, added, call, ret>>
    /\ UNCHANGED <<ioVars, poolVars>>

\* MessageDecoder::get with a fresh TLV object of the given type
Get(type) ==
    /\ decPhase = "open"
    /\ Len(got) < MaxTlvs
    /\ LET r == MessageDecoderGet(mem, View(0, decSize), decOffset,
                                  FreshTLV(type))
       IN /\ decOffset' = r.offset
          /\ got' = IF r.err = "ok" THEN Append(got, r.tlv) ELSE got
          /\ lastGet' = [err |-> r.err, type |-> type]
    /\ FnReset
    /\ UNCHANGED <<mem, encPhase, encOffset, hdr, added, decPhase, decSize>>
    /\ UNCHANGED <<ioVars, poolVars>>

\* MessageDecoder::getNextTLVType; ret keeps the cursor before and after,
\* the size of the view and, when four bytes remain, the stored header
GetNextTLVType ==
    /\ decPhase = "open"
    /\ call' = [fn |-> "getNextTLVType"]
    /\ ret' = [fn |-> "getNextTLVType",
               type |-> MessageDecoderGetNextTLVType(mem, View(0, decSize),
                                                     decOffset),
               before |-> decOffset, after |-> decOffset, size |-> decSize,
               stored |-> IF decOffset + headerLength <= decSize
                          THEN <<PrimGetUint16At(mem, decOffset),
                                 PrimGetUint16At(mem, decOffset + 2)>>
                          ELSE <<>>]
    /\ UNCHANGED <<mem, encVars, decVars>>
    /\ UNCHANGED <<ioVars, poolVars>>

\* ---------------------------------------------------------------------
\* Specification of the common header: encoder setters, one frame, decoder
\* ---------------------------------------------------------------------
EntityClasses == {HELLO_SERVICE, CAPABILITIES_SERVICE, ECHO_SERVICE, 8192, 16383}

Ids64 == {<<0, 0, 0, 0>>, <<65535, 32769, 258, 65535>>}

Ids32 == {<<0, 0>>, <<65535, 32769>>}

\* "Hi" as binary data with its NUL
HeaderTlv == TLVBinaryData(<<72, 105, 0>>)

InitHeader ==
    /\ mem \in {Filled(f) : f \in Fills}
    /\ EncIdle /\ DecIdle /\ FnIdle /\ IoIdle /\ PoolIdle

NextHeader ==
    \/ NewEncoder
    \/ \E mc \in MessageClass : HeaderMessageClass(mc)
    \/ \E ec \in EntityClasses : HeaderEntityClass(ec)
    \/ \E v \in Ids64 : HeaderElementId(v)
    \/ \E v \in Ids32 : HeaderSequence(v)
    \/ \E v \in Ids32 : HeaderTransactionId(v)
    \/ (added = <<>> /\ Add(HeaderTlv))
    \/ End
    \/ NewDecoder

SpecHeader == InitHeader /\ [][NextHeader]_vars

\* the header fields a decoder over the view v reports
DecodedHeader(m, v) ==
    [mc |-> DecMessageClass(m, v), ec |-> DecEntityClass(m, v),
     eid |-> DecElementId(m, v), seq |-> DecSequence(m, v),
     xid |-> DecTransactionId(m, v)]

\* C1: a frame built with messageClass(mc), entityClass(ec), the id setters,
\* one TLV and end() decodes to the same message class, entity class,
\* element id, sequence and transaction id.
C1_HeaderRoundTrip ==
    (decPhase = "open" /\ hdr.mc # "unset" /\ hdr.ec # -1 /\ Len(added) = 1)
        => DecodedHeader(mem, View(0, decSize)) = hdr

\* C7: right after construction of an encoder over a view with arbitrary
\* previous contents the header holds version 2 and zero in flags, ts_rc,
\* length, element_id, sequence and transaction_id.
C7_ConstructionDefaults ==
    (encPhase = "open" /\ hdr = NoHeader /\ added = <<>>)
        => /\ DecVersion(mem, Buffer) = 2
           /\ DecFlags(mem, Buffer) = 0
           /\ DecTsRc(mem, Buffer) = 0
           /\ DecTotalLengthBytes(mem, Buffer) = <<0, 0>>
           /\ DecElementId(mem, Buffer) = <<0, 0, 0, 0>>
           /\ DecSequence(mem, Buffer) = <<0, 0>>
           /\ DecTransactionId(mem, Buffer) = <<0, 0>>

\* ---------------------------------------------------------------------
\* Specification of CommonHeaderDecoder::messageClass on received frames
\* ---------------------------------------------------------------------
RxFlags == {0, 1, 127, 128, 129, 255}

RxTsRc == {hi * 16384 + lo : hi \in 0..3, lo \in {0, 255, 8192, 16383}}

\* a received frame of BufSize bytes with the given flags and ts_rc
RxFrame(flags, tsrc) ==
    PrimSetUint16At([Filled(0) EXCEPT ![versionOffset] = 2,
                                      ![flagsOffset] = flags],
                    tsrcOffset, tsrc)

InitRx ==
    /\ mem \in {RxFrame(f, t) : f \in RxFlags, t \in RxTsRc}
    /\ EncIdle /\ DecIdle /\ FnIdle /\ IoIdle /\ PoolIdle

\* CommonHeaderDecoder over the received frame, then messageClass()
RxMessageClass ==
    /\ call = NoCall
    /\ DecoderSuitable(mem, Buffer) = "ok"
    /\ call' = [fn |-> "messageClass"]
    /\ ret' = [fn |-> "messageClass", mc |-> DecMessageClass(mem, Buffer)]
    /\ UNCHANGED <<mem, encVars, decVars>>
    /\ UNCHANGED <<ioVars, poolVars>>

NextRx == RxMessageClass

SpecRx == InitRx /\ [][NextRx]_vars

\* the message class the wire format assigns to (flag bit 7, ts_rc)
WireMessageClass(flags, tsrc) ==
    IF (flags \div 128) % 2 = 0
    THEN CASE tsrc \div 16384 = 0 -> "REQUEST_SET"
           [] tsrc \div 16384 = 1 -> "REQUEST_ADD"
           [] tsrc \div 16384 = 2 -> "REQUEST_DEL"
           [] tsrc \div 16384 = 3 -> "REQUEST_GET"
    ELSE IF (tsrc \div 32768) % 2 = 0 THEN "RESPONSE_SUCCESS"
         ELSE "RESPONSE_FAILURE"

\* C4: messageClass() maps flag bit 7 and ts_rc bits 15..14 to the message
\* class as the wire format defines, whatever ts_rc bits 0..13 are (and, for
\* a response, whatever bit 14 is).
C4_MessageClassDecoding ==
    ret.fn = "messageClass"
        => ret.mc = WireMessageClass(mem[flagsOffset],
                                     mem[tsrcOffset] * 256 + mem[tsrcOffset + 1])

\* ---------------------------------------------------------------------
\* Specification of the TLV codec: one encoder, TLVs added, one decoder
\* ---------------------------------------------------------------------
\* strings: "", "12345", "k", "v" and "A\\0B" (a NUL inside)
Strings == {<<>>, <<49, 50, 51, 52, 53>>, <<65, 0, 66>>}

TlvValues ==
    {TLVError(4660, s) : s \in Strings}
    \cup {TLVBinaryData(d) : d \in {<<>>, <<72, 105, 0>>, <<255, 1>>}}
    \cup {TLVKeyValueStringPairs(p) :
            p \in {<<>>, <<<<<<107>>, <<118>>>>>>, <<<<<<>>, <<>>>>>>,
                   <<<<<<107>>, <<>>>>, <<<<49, 50, 51, 52, 53>>, <<118>>>>>>,
                   <<<<<<65, 0, 66>>, <<118>>>>>>}}
    \cup {TLVList(TLV_NONE, 0)}
    \cup {TLVPeriodicityMs(ms) : ms \in {<<65535, 1500>>}}
    \cup {TLVCell(pci, <<1, 2>>, <<65535, 0>>, 100) : pci \in {503}}

TlvTypes ==
    {TLV_ERROR, TLV_KEY_VALUE_STRING_PAIRS, TLV_LIST_OF_TLV, TLV_BINARY_DATA,
     TLV_PERIODICITY, TLV_CELL}

InitCodec ==
    /\ mem \in {Filled(f) : f \in Fills}
    /\ EncIdle /\ DecIdle /\ FnIdle /\ IoIdle /\ PoolIdle

NextCodec ==
    \/ (encPhase = "none" /\ NewEncoder)
    \/ \E t \in TlvValues : Add(t)
    \/ End
    \/ NewDecoder
    \/ \E t \in TlvTypes : Get(t)
    \/ GetNextTLVType

SpecCodec == InitCodec /\ [][NextCodec]_vars

\* a string the NUL-terminated wire form can carry
NulFree(str) == \A i \in 1..Len(str) : str[i] # 0

CStringSafe(tlv) ==
    CASE tlv.type = TLV_ERROR -> NulFree(tlv.message)
      [] tlv.type = TLV_KEY_VALUE_STRING_PAIRS ->
           \A i \in 1..Len(tlv.value) :
               NulFree(tlv.value[i][1]) /\ NulFree(tlv.value[i][2])
      [] OTHER -> TRUE

\* the decoder has been given, so far, fresh objects of the types added, in
\* the order added: every get succeeded, every decoded object equals the one
\* encoded, and after the last one the cursor is the encoder's final cursor
DecodedAsEncoded ==
    /\ Len(got) <= Len(added)
    /\ \A i \in 1..Len(got) : got[i] = added[i]
    /\ (Len(got) < Len(added) /\ lastGet.type = added[Len(got) + 1].type)
           => lastGet.err \in {"none", "ok"}
    /\ Len(got) = Len(added) => decOffset = encOffset

RECURSIVE PairsLength(_)
PairsLength(pairs) ==
    IF pairs = <<>> THEN 0
    ELSE Len(pairs[1][1]) + 1 + Len(pairs[1][2]) + 1 + PairsLength(Tail(pairs))

WireValueLength(tlv) ==
    CASE tlv.type = TLV_ERROR -> 2 + Len(tlv.message) + 1
      [] tlv.type = TLV_BINARY_DATA -> Len(tlv.data)
      [] tlv.type = TLV_KEY_VALUE_STRING_PAIRS -> PairsLength(tlv.value)
      [] tlv.type = TLV_LIST_OF_TLV -> 4
      [] tlv.type = TLV_PERIODICITY -> 4
      [] tlv.type = TLV_CELL -> 11

RECURSIVE SumTotalLengths(_)
SumTotalLengths(tlvs) ==
    IF tlvs = <<>> THEN 0
    ELSE headerLength + WireValueLength(tlvs[1]) + SumTotalLengths(Tail(tlvs))

\* C3: after the successful add() calls and end(), the preamble length field
\* equals the encoder cursor, which is 24 plus the sum of the total lengths
\* of the TLVs added, is at least 24, and is the size of the view data().
C3_LengthConsistency ==
    encPhase = "closed" =>
        /\ U32ToSize(DecTotalLengthBytes(mem, Buffer)) = encOffset
        /\ encOffset = totalLength + SumTotalLengths(added)
        /\ encOffset >= totalLength
        /\ MessageEncoderData(Buffer, encOffset).size = encOffset
        /\ ~OutOfBounds(Buffer, 0, encOffset)

C3_Witness ==
    /\ encPhase = "closed" /\ Len(added) = MaxTlvs
    /\ added[1].type = TLV_CELL /\ added[2].type = TLV_BINARY_DATA
    /\ encOffset = totalLength + 15 + headerLength + Len(added[2].data)
    /\ Len(added[2].data) > 0

\* ---------------------------------------------------------------------
\* Specification of TLVBase::encode called alone on a view of a region
\* ---------------------------------------------------------------------
EncodeViewMax == 16

EncodeViewBase == 4

InitEncode ==
    /\ \E f \in Fills : mem = Filled(f)
    /\ EncIdle /\ DecIdle /\ FnIdle /\ IoIdle /\ PoolIdle

\* tlv.encode(view) on a view of n bytes; an exception ends the call
EncodeInto(tlv, n) ==
    /\ call = NoCall
    /\ LET r == Encode(tlv, mem, View(EncodeViewBase, n))
       IN /\ mem' = r.mem
          /\ ret' = [fn |-> "encode", ok |-> r.ok, len |-> r.len]
    /\ call' = [fn |-> "encode", tlv |-> tlv, size |-> n, before |-> mem]
    /\ UNCHANGED <<encVars, decVars>>
    /\ UNCHANGED <<ioVars, poolVars>>

NextEncode == \E tlv \in TlvValues, n \in 0..EncodeViewMax : EncodeInto(tlv, n)

SpecEncode == InitEncode /\ [][NextEncode]_vars

\* C6: encode() given a view smaller than the value needs fails, and every
\* byte of the view is as it was before the call.
C6_FailedEncodeLeavesView ==
    (call.fn = "encode" /\ call.size < WireValueLength(call.tlv)) =>
        /\ ~ret.ok
        /\ \A i \in 0..(call.size - 1) :
               mem[EncodeViewBase + i] = call.before[EncodeViewBase + i]

\* ---------------------------------------------------------------------
\* Specification of the bounds-checked accessors of BufferView and
\* BufferWritableView, called on a view inside the region with any offset
\* ---------------------------------------------------------------------
AccessBase == 16

AccessSize == 8

\* offsets range from 2^64 - AccessReach (kept as -AccessReach) upwards
AccessReach == 9

AccessView == View(AccessBase, AccessSize)

AccessOffsets == (0 - AccessReach)..(AccessSize + 1)

\* the signed accessors are the unsigned ones with a cast of the value
AccessKinds == {"u8", "u16", "u32", "u64", "ipv4", "mac", "cstring"}

AccessString == <<72, 105>>

\* the length handed to throwExceptionIfOutOfBounds by the writer
AccessWidth(kind) ==
    CASE kind = "u8" -> 1
      [] kind = "u16" -> 2
      [] kind = "u32" -> 4
      [] kind = "u64" -> 8
      [] kind = "ipv4" -> 4
      [] kind = "mac" -> 6
      [] kind = "cstring" -> Len(AccessString) + 1

\* BufferWritableView::setIPv4AddressAt / setMACAddressAt (bytes given)
SetBytesAt(st, v, offset, bytes) ==
    IF ~st.ok THEN st
    ELSE IF OutOfBounds(v, offset, Len(bytes)) THEN [st EXCEPT !.ok = FALSE]
    ELSE [st EXCEPT !.mem = CopyBytes(st.mem, v.base + offset, bytes)]

\* the checked writers: [ok, mem]
WriteAt(m, v, kind, offset) ==
    CASE kind = "u8" -> SetUint8At(Start(m), v, offset, 165)
      [] kind = "u16" -> SetUint16At(Start(m), v, offset, 42406)
      [] kind = "u32" -> SetUint32At(Start(m), v, offset, <<42406, 42920>>)
      [] kind = "u64" ->
           SetUint64At(Start(m), v, offset, <<42406, 42920, 43434, 43948>>)
      [] kind = "ipv4" -> SetBytesAt(Start(m), v, offset, <<10, 0, 0, 1>>)
      [] kind = "mac" -> SetBytesAt(Start(m), v, offset, <<2, 0, 0, 0, 0, 1>>)
      [] kind = "cstring" -> SetCStringAt(Start(m), v, offset, AccessString)

\* the checked readers: [ok, value, touched], touched being the offsets of
\* the bytes read, relative to the start of the view
ReadAt(m, v, kind, offset) ==
    IF kind = "cstring"
    THEN LET r == GetCStringAt(m, v, offset)
         IN [ok |-> r.ok, value |-> r.str,
             touched |-> IF OutOfBounds(v, offset, 0) THEN {}
                         ELSE IF r.ok THEN offset..(offset + Len(r.str))
                         ELSE offset..(v.size - 1)]
    ELSE IF OutOfBounds(v, offset, AccessWidth(kind))
    THEN [ok |-> FALSE, value |-> <<>>, touched |-> {}]
    ELSE [ok |-> TRUE,
          value |-> [i \in 1..AccessWidth(kind) |->
                        m[v.base + offset + i - 1]],
          touched |-> offset..(offset + AccessWidth(kind) - 1)]

\* the region numbered, so that every byte read tells where it was read
Numbered == [i \in 0..(BufSize - 1) |-> i + 1]

InitAccess ==
    /\ mem \in {Filled(0), Filled(255), Numbered}
    /\ EncIdle /\ DecIdle /\ FnIdle /\ IoIdle /\ PoolIdle

\* the outcomes of a call the check let through: with an offset that made
\* offset + length wrap, mPtr + offset is outside the pointer's range, and
\* the build either wraps the address too or stops the program
Outcomes(ok, offset) ==
    IF ~ok THEN {"threw"}
    ELSE IF offset < 0 THEN {"returned", "fault"}
    ELSE {"returned"}

Write(kind, offset) ==
    /\ call = NoCall
    /\ LET r == WriteAt(mem, AccessView, kind, offset)
       IN \E how \in Outcomes(r.ok, offset) :
             /\ mem' = IF how = "returned" THEN r.mem ELSE mem
             /\ ret' = [fn |-> "write", how |-> how, touched |-> {},
                        value |-> <<>>]
    /\ call' = [fn |-> "write", kind |-> kind, offset |-> offset,
                width |-> AccessWidth(kind), before |-> mem]
    /\ UNCHANGED <<encVars, decVars>>
    /\ UNCHANGED <<ioVars, poolVars>>

Read(kind, offset) ==
    /\ call = NoCall
    /\ LET r == ReadAt(mem, AccessView, kind, offset)
       IN \E how \in Outcomes(r.ok, offset) :
             ret' = [fn |-> "read", how |-> how,
                     touched |-> IF how = "returned" THEN r.touched ELSE {},
                     value |-> IF how = "returned" THEN r.value ELSE <<>>]
    /\ call' = [fn |-> "read", kind |-> kind, offset |-> offset,
                width |-> IF kind = "cstring" THEN 1 ELSE AccessWidth(kind),
                before |-> mem]
    /\ UNCHANGED <<mem, encVars, decVars>>
    /\ UNCHANGED <<ioVars, poolVars>>

NextAccess ==
    \E kind \in AccessKinds, offset \in AccessOffsets :
        Write(kind, offset) \/ Read(kind, offset)

SpecAccess == InitAccess /\ [][NextAccess]_vars

\* C5: a checked reader or writer called with offset + width greater than
\* the size of the view, for any offset of the size type, fails with the
\* out-of-range error, reads nothing outside the view and leaves every byte
\* of the region as it was.
C5_BoundsSafety ==
    (call.fn \in {"read", "write"}
       /\ (call.offset < 0 \/ call.offset + call.width > AccessSize)) =>
        /\ ret.how = "threw"
        /\ ret.touched \subseteq 0..(AccessSize - 1)
        /\ mem = call.before

\* ---------------------------------------------------------------------
\* Specification of IO::readMessage on an open connection: each read(2)
\* is a step, and gives what the socket gives
\* ---------------------------------------------------------------------
\* size of the readBuffer handed to readMessage
IoBufSize == 32

\* EAGAIN / EWOULDBLOCK / EINTR results a call is given at most
MaxTransient == 2

\* readMessage calls made
MaxReads == 2

Min(a, b) == IF a < b THEN a ELSE b

\* a close that leaves the listening socket open
CloseConnectionFds_ConnectionOnly ==
    /\ mConnectionFD' = -1
    /\ mListeningSocketFD' = mListeningSocketFD
    /\ openFds' = openFds \ {mConnectionFD}
    /\ stream' = <<>>
    /\ pending' = 0

\* IO::closeConnection: both descriptors are closed; what the peers had
\* sent and was not read is gone
CloseConnectionFds ==
    /\ mConnectionFD' = -1
    /\ mListeningSocketFD' = -1
    /\ openFds' = openFds \ {mConnectionFD, mListeningSocketFD}
    /\ stream' = <<>>
    /\ pending' = 0

\* a frame: preamble with the version and the length, then filler bytes
WireFrame(version, length, filler) ==
    [i \in 1..length |->
        CASE i = versionOffset + 1 -> version
          [] i = lengthOffset + 4 -> length
          [] i > PreambleSize -> filler + i
          [] OTHER -> 0]

FirstFrames ==
    {WireFrame(2, totalLength, 16), WireFrame(2, totalLength + 4, 16),
     WireFrame(1, totalLength, 16), WireFrame(1, PreambleSize, 16)}

SecondFrame == WireFrame(2, totalLength, 64)

\* the connection is open; the peer has sent two frames, or one, or the
\* first twelve bytes of one
InitRead ==
    /\ mConnectionFD = 3 /\ mListeningSocketFD = -1 /\ openFds = {3}
    /\ pending = 0 /\ peerClosed = FALSE
    /\ \E a \in FirstFrames :
          \/ wire = <<a, SecondFrame>> /\ stream = a \o SecondFrame
          \/ wire = <<a>> /\ stream = a
          \/ wire = <<a>> /\ stream = SubSeq(a, 1, Min(12, Len(a)))
    /\ rd = NoRead
    /\ rbuf = [i \in (0 - MaxTransient)..(IoBufSize - 1) |-> 0]
    /\ results = <<>>
    /\ mem = Filled(0)
    /\ EncIdle /\ DecIdle /\ FnIdle /\ PoolIdle

\* return or throw: the call ends
Finish(r, kind, bytes, open) ==
    /\ rd' = [r EXCEPT !.pc = "done"]
    /\ results' = Append(results,
                         [kind |-> kind, bytes |-> bytes, open |-> open,
                          consumed |-> r.consumed, log |-> r.log])

\* readMessage up to the first read(2)
ReadMessage ==
    /\ rd.pc \in {"idle", "done"}
    /\ Len(results) < MaxReads
    /\ IF mConnectionFD = -1 \/ IoBufSize < PreambleSize
       THEN Finish(NoRead, "throw", <<>>, mConnectionFD # -1)
       ELSE rd' = [NoRead EXCEPT !.pc = "preamble"] /\ UNCHANGED results
    /\ UNCHANGED <<mConnectionFD, mListeningSocketFD, openFds, pending,
                   stream, peerClosed, wire, rbuf>>
    /\ UNCHANGED <<mem, encVars, decVars, fnVars, poolVars>>

\* the preamble loop, read(2) giving k bytes; when the preamble is
\* complete, the version and the length are taken and the room is checked
PreambleRead(k) ==
    /\ rd.pc = "preamble"
    /\ k <= Min(PreambleSize - rd.bytesRead, Len(stream))
    /\ LET buf == CopyBytes(rbuf, rd.bytesRead, SubSeq(stream, 1, k))
           r == [rd EXCEPT !.bytesRead = rd.bytesRead + k,
                           !.consumed = rd.consumed + k,
                           !.log = rd.log \cup {"data"}]
           messageLength == U32ToSize(PrimGetUint32At(buf, lengthOffset))
           r1 == [r EXCEPT !.version = buf[versionOffset],
                           !.messageLength = messageLength]
       IN /\ rbuf' = buf
          /\ IF r.bytesRead < PreambleSize
             THEN /\ rd' = r
                  /\ stream' = SubSeq(stream, k + 1, Len(stream))
                  /\ UNCHANGED <<mConnectionFD, mListeningSocketFD, openFds,
                                 pending, results>>
             ELSE IF IoBufSize < messageLength
             THEN /\ CloseConnectionFds
                  /\ Finish(r1, "throw", <<>>, FALSE)
             ELSE /\ rd' = [r1 EXCEPT !.pc = "body"]
                  /\ stream' = SubSeq(stream, k + 1, Len(stream))
                  /\ UNCHANGED <<mConnectionFD, mListeningSocketFD, openFds,
                                 pending, results>>
    /\ UNCHANGED <<peerClosed, wire>>
    /\ UNCHANGED <<mem, encVars, decVars, fnVars, poolVars>>

\* read(2) gives -1 with EAGAIN, EWOULDBLOCK or EINTR: the call sleeps,
\* then adds rc to bytesRead and goes round the loop
ReadTransient(loop) ==
    /\ rd.pc = loop
    /\ rd.transients < MaxTransient
    /\ loop = "body" => rd.messageLength - rd.bytesRead > 0
    /\ rd' = [rd EXCEPT !.bytesRead = rd.bytesRead - 1,
                        !.transients = rd.transients + 1,
                        !.log = rd.log \cup {"transient"}]
    /\ UNCHANGED <<mConnectionFD, mListeningSocketFD, openFds, pending,
                   stream, peerClosed, wire, rbuf, results>>
    /\ UNCHANGED <<mem, encVars, decVars, fnVars, poolVars>>

\* read(2) gives 0 (end of file), or -1 with ECONNABORTED / ECONNRESET, or
\* -1 with another errno; EFAULT is what it gives for an address outside
\* the process's memory, as rawBuffer + bytesRead may be when bytesRead < 0
ReadEnd(loop, why) ==
    /\ rd.pc = loop
    /\ why = "eof" => stream = <<>> /\ peerClosed
    /\ why = "efault" => rd.bytesRead < 0 /\ stream # <<>>
    /\ loop = "body" => rd.messageLength - rd.bytesRead > 0
    /\ CloseConnectionFds
    /\ Finish([rd EXCEPT !.log = rd.log \cup {why}],
              IF why \in {"eof", "reset"} THEN "empty" ELSE "throw",
              <<>>, FALSE)
    /\ UNCHANGED <<peerClosed, wire, rbuf>>
    /\ UNCHANGED <<mem, encVars, decVars, fnVars, poolVars>>

\* the body loop entered with nothing left to read: read(2) is asked for 0
\* bytes and gives 0, which the loop takes for the end of file
BodyReadNothing ==
    /\ rd.pc = "body"
    /\ rd.messageLength - rd.bytesRead = 0
    /\ CloseConnectionFds
    /\ Finish([rd EXCEPT !.log = rd.log \cup {"zero"}], "empty", <<>>, FALSE)
    /\ UNCHANGED <<peerClosed, wire, rbuf>>
    /\ UNCHANGED <<mem, encVars, decVars, fnVars, poolVars>>

\* the body loop, read(2) giving k bytes; when the message is complete the
\* version is checked and the view on the message returned
BodyRead(k) ==
    /\ rd.pc = "body"
    /\ rd.messageLength - rd.bytesRead > 0
    /\ k <= Min(rd.messageLength - rd.bytesRead, Len(stream))
    /\ LET buf == CopyBytes(rbuf, rd.bytesRead, SubSeq(stream, 1, k))
           r == [rd EXCEPT !.bytesRead = rd.bytesRead + k,
                           !.consumed = rd.consumed + k,
                           !.log = rd.log \cup {"data"}]
       IN /\ rbuf' = buf
          /\ IF r.bytesRead < r.messageLength
             THEN rd' = r /\ UNCHANGED results
             ELSE IF r.version # 2
             THEN Finish(r, "empty", <<>>, TRUE)
             ELSE IF r.bytesRead # r.messageLength
             THEN Finish(r, "throw", <<>>, TRUE)
             ELSE Finish(r, "view", [i \in 1..r.bytesRead |-> buf[i - 1]],
                         TRUE)
    /\ stream' = SubSeq(stream, k + 1, Len(stream))
    /\ UNCHANGED <<mConnectionFD, mListeningSocketFD, openFds, pending,
                   peerClosed, wire>>
    /\ UNCHANGED <<mem, encVars, decVars, fnVars, poolVars>>

\* the peer shuts its end of the connection
PeerCloses ==
    /\ mConnectionFD # -1
    /\ ~peerClosed
    /\ peerClosed' = TRUE
    /\ UNCHANGED <<mConnectionFD, mListeningSocketFD, openFds, pending,
                   stream, wire, rd, rbuf, results>>
    /\ UNCHANGED <<mem, encVars, decVars, fnVars, poolVars>>

ReadEnds == {"eof", "reset", "error", "efault"}

NextRead ==
    \/ ReadMessage
    \/ \E k \in 1..PreambleSize : PreambleRead(k)
    \/ \E k \in 1..IoBufSize : BodyRead(k)
    \/ BodyReadNothing
    \/ \E loop \in {"preamble", "body"} : ReadTransient(loop)
    \/ \E loop \in {"preamble", "body"}, why \in ReadEnds : ReadEnd(loop, why)
    \/ PeerCloses

SpecRead == InitRead /\ [][NextRead]_vars

\* what the socket did to the i-th call was only to give data in chunks and
\* transient errors: no end of file, no reset, no other error
OnlyChunksAndTransients(i) ==
    results[i].log \cap {"eof", "reset", "error"} = {}

\* C8: whatever chunks the socket splits a well-formed version-2 frame of
\* declared length L (24 <= L <= buffer size) into, with EINTR / EAGAIN /
\* EWOULDBLOCK results anywhere between them, readMessage returns one view
\* of L bytes holding the frame in stream order and the connection stays
\* open.
C8_FrameSynchronousRead ==
    (/\ Len(results) >= 1
     /\ Len(wire) = 2
     /\ wire[1][versionOffset + 1] = 2
     /\ Len(wire[1]) >= totalLength /\ Len(wire[1]) <= IoBufSize
     /\ OnlyChunksAndTransients(1)) =>
        /\ results[1].kind = "view"
        /\ results[1].bytes = wire[1]
        /\ results[1].open

\* C9: a frame whose version is not 2 and whose declared length L fits the
\* buffer is consumed whole (exactly L bytes), readMessage returns an empty
\* view without an error and without closing the connection, and the next
\* readMessage returns the following frame intact.
C9_VersionMismatchKeepsAlignment ==
    (/\ Len(results) >= 1
     /\ Len(wire) = 2
     /\ wire[1][versionOffset + 1] # 2
     /\ Len(wire[1]) <= IoBufSize
     /\ OnlyChunksAndTransients(1)) =>
        /\ results[1].kind = "empty"
        /\ results[1].consumed = Len(wire[1])
        /\ results[1].open
        /\ (Len(results) >= 2 /\ OnlyChunksAndTransients(2)) =>
               /\ results[2].kind = "view"
               /\ results[2].bytes = wire[2]

\* ---------------------------------------------------------------------
\* Specification of the endpoint: the sockets of IO, isDataAvailable, and
\* the peers
\* ---------------------------------------------------------------------
\* the highest descriptor the process may hold
MaxFd == 5

\* peers waiting on the listening socket at most
MaxPending == 2

\* frames unread on the connection at most
MaxInbox == 1

FreeFds == (3..MaxFd) \ openFds

\* the descriptor socket(2) or accept(2) gives: the lowest free one
NewFd == CHOOSE fd \in FreeFds : \A other \in FreeFds : fd <= other

InitEndpoint ==
    /\ mConnectionFD = -1 /\ mListeningSocketFD = -1 /\ openFds = {}
    /\ pending = 0 /\ stream = <<>> /\ peerClosed = FALSE /\ wire = <<>>
    /\ rd = NoRead /\ rbuf = <<>> /\ results = <<>>
    /\ mem = Filled(0)
    /\ EncIdle /\ DecIdle /\ FnIdle /\ PoolIdle

EndpointFrame ==
    UNCHANGED <<wire, rd, rbuf, results, mem, encVars, decVars, poolVars>>

\* IO::closeConnection
CloseConnection ==
    /\ CloseConnectionFds
    /\ peerClosed' = FALSE
    /\ call' = [fn |-> "closeConnection"]
    /\ ret' = [fn |-> "closeConnection", how |-> "returned"]
    /\ EndpointFrame

\* IO::openListeningSocket; socket(2), bind(2) or listen(2) may fail, and
\* then the function throws
OpenListeningSocket(outcome) ==
    /\ LET closed == openFds \ {mConnectionFD, mListeningSocketFD}
           free == (3..MaxFd) \ closed
           socketFD == CHOOSE fd \in free : \A other \in free : fd <= other
       IN /\ outcome # "socket" => free # {}
          /\ mConnectionFD' = -1
          /\ mListeningSocketFD' = IF outcome = "ok" THEN socketFD ELSE -1
          /\ openFds' = IF outcome = "socket" THEN closed
                        ELSE closed \cup {socketFD}
    /\ stream' = <<>> /\ pending' = 0 /\ peerClosed' = FALSE
    /\ call' = [fn |-> "openListeningSocket"]
    /\ ret' = [fn |-> "openListeningSocket",
               how |-> IF outcome = "ok" THEN "returned" ELSE "threw"]
    /\ EndpointFrame

\* the errno values of connect(2) after which openSocket returns false
ConnectRecoverable == {"ECONNREFUSED", "EINTR", "ETIMEDOUT"}

\* what socket(2) and connect(2) may do in openSocket: both succeed,
\* socket(2) fails, or connect(2) fails with the errno named
ConnectOutcomes ==
    {"ok", "socket", "ECONNREFUSED", "EINTR", "ETIMEDOUT", "ENETUNREACH"}

\* an openSocket that leaves the new socket open when connect(2) fails
OpenSocket_KeepsFailedSocket(outcome) ==
    /\ LET closed == openFds \ {mConnectionFD, mListeningSocketFD}
           free == (3..MaxFd) \ closed
           sockfd == CHOOSE fd \in free : \A other \in free : fd <= other
       IN /\ outcome # "socket" => free # {}
          /\ mListeningSocketFD' = -1
          /\ mConnectionFD' = IF outcome = "ok" THEN sockfd ELSE -1
          /\ openFds' = IF outcome # "socket" THEN closed \cup {sockfd}
                        ELSE closed
          /\ ret' = [fn |-> "openSocket",
                     how |-> IF outcome \in {"ok"} \cup ConnectRecoverable
                             THEN "returned" ELSE "threw",
                     result |-> outcome = "ok",
                     outcome |-> outcome,
                     held |-> {mConnectionFD, mListeningSocketFD} \ {-1},
                     sockfd |-> IF outcome = "socket" THEN -1 ELSE sockfd]
    /\ stream' = <<>> /\ pending' = 0 /\ peerClosed' = FALSE
    /\ call' = [fn |-> "openSocket"]
    /\ EndpointFrame

\* IO::openSocket; connect(2) may fail in a recoverable way (false is
\* returned) or otherwise (the function throws); the socket is closed
\* then. ret keeps the descriptors held when the call was made and the
\* one socket(2) gave
OpenSocket(outcome) ==
    /\ LET closed == openFds \ {mConnectionFD, mListeningSocketFD}
           free == (3..MaxFd) \ closed
           sockfd == CHOOSE fd \in free : \A other \in free : fd <= other
       IN /\ outcome # "socket" => free # {}
          /\ mListeningSocketFD' = -1
          /\ mConnectionFD' = IF outcome = "ok" THEN sockfd ELSE -1
          /\ openFds' = IF outcome = "ok" THEN closed \cup {sockfd}
                        ELSE closed
          /\ ret' = [fn |-> "openSocket",
                     how |-> IF outcome \in {"ok"} \cup ConnectRecoverable
                             THEN "returned" ELSE "threw",
                     result |-> outcome = "ok",
                     outcome |-> outcome,
                     held |-> {mConnectionFD, mListeningSocketFD} \ {-1},
                     sockfd |-> IF outcome = "socket" THEN -1 ELSE sockfd]
    /\ stream' = <<>> /\ pending' = 0 /\ peerClosed' = FALSE
    /\ call' = [fn |-> "openSocket"]
    /\ EndpointFrame

\* the body of IO::acceptConnectionIfNeeded once accept(2) has returned:
\* [ok, fd, fds]
Accepted(fails) ==
    IF fails \/ FreeFds = {}
    THEN [ok |-> FALSE, fd |-> -1, fds |-> openFds]
    ELSE [ok |-> TRUE, fd |-> NewFd, fds |-> openFds \cup {NewFd}]

\* an accept made whenever a listening socket is held
AcceptConnectionIfNeeded_WheneverListening(fails, first) ==
    /\ IF mListeningSocketFD # -1
       THEN /\ pending > 0 \/ fails
            /\ LET a == Accepted(fails)
               IN /\ mConnectionFD' = a.fd
                  /\ openFds' = a.fds
                  /\ pending' = IF a.ok THEN pending - 1 ELSE pending
                  /\ stream' = IF a.ok THEN first ELSE stream
                  /\ ret' = [fn |-> "acceptConnectionIfNeeded",
                             how |-> IF a.ok THEN "returned" ELSE "threw"]
       ELSE /\ ret' = [fn |-> "acceptConnectionIfNeeded", how |-> "returned"]
            /\ UNCHANGED <<mConnectionFD, openFds, pending, stream>>
    /\ call' = [fn |-> "acceptConnectionIfNeeded"]
    /\ UNCHANGED <<mListeningSocketFD, peerClosed>>
    /\ EndpointFrame

\* IO::acceptConnectionIfNeeded; accept(2) waits for a peer
AcceptConnectionIfNeeded(fails, first) ==
    /\ IF mListeningSocketFD # -1 /\ mConnectionFD = -1
       THEN /\ pending > 0 \/ fails
            /\ LET a == Accepted(fails)
               IN /\ mConnectionFD' = a.fd
                  /\ openFds' = a.fds
                  /\ pending' = IF a.ok THEN pending - 1 ELSE pending
                  /\ stream' = IF a.ok THEN first ELSE stream
                  /\ ret' = [fn |-> "acceptConnectionIfNeeded",
                             how |-> IF a.ok THEN "returned" ELSE "threw"]
       ELSE /\ ret' = [fn |-> "acceptConnectionIfNeeded", how |-> "returned"]
            /\ UNCHANGED <<mConnectionFD, openFds, pending, stream>>
    /\ call' = [fn |-> "acceptConnectionIfNeeded"]
    /\ UNCHANGED <<mListeningSocketFD, peerClosed>>
    /\ EndpointFrame

\* what select(2) reports for the two descriptors
ListenReady(listenFD, waiting) == listenFD # -1 /\ waiting > 0

ConnReady(connFD, unread, closed) == connFD # -1 /\ (unread # <<>> \/ closed)

\* IO::isDataAvailable, the accept and the second select of the recursive
\* call included; select(2) may fail, and then the function throws
IsDataAvailable(selectFails, acceptFails, first) ==
    /\ call' = [fn |-> "isDataAvailable"]
    /\ IF mConnectionFD = -1 /\ mListeningSocketFD = -1
       THEN /\ ret' = [fn |-> "isDataAvailable", how |-> "returned",
                       result |-> FALSE, readable |-> FALSE]
            /\ UNCHANGED <<mConnectionFD, openFds, pending, stream>>
       ELSE IF selectFails
       THEN /\ ret' = [fn |-> "isDataAvailable", how |-> "threw",
                       result |-> FALSE, readable |-> FALSE]
            /\ UNCHANGED <<mConnectionFD, openFds, pending, stream>>
       ELSE IF ~ListenReady(mListeningSocketFD, pending)
               /\ ~ConnReady(mConnectionFD, stream, peerClosed)
       THEN /\ ret' = [fn |-> "isDataAvailable", how |-> "returned",
                       result |-> FALSE, readable |-> FALSE]
            /\ UNCHANGED <<mConnectionFD, openFds, pending, stream>>
       ELSE IF mListeningSocketFD # -1 /\ mConnectionFD = -1
       THEN LET a == Accepted(acceptFails)
                waiting == pending - 1
            IN /\ mConnectionFD' = a.fd
               /\ openFds' = a.fds
               /\ pending' = IF a.ok THEN waiting ELSE pending
               /\ stream' = IF a.ok THEN first ELSE stream
               /\ ret' =
                    IF ~a.ok
                    THEN [fn |-> "isDataAvailable", how |-> "threw",
                          result |-> FALSE, readable |-> FALSE]
                    ELSE [fn |-> "isDataAvailable", how |-> "returned",
                          result |->
                              ListenReady(mListeningSocketFD, waiting)
                              \/ ConnReady(a.fd, first, FALSE),
                          readable |-> ConnReady(a.fd, first, FALSE)]
       ELSE /\ ret' = [fn |-> "isDataAvailable", how |-> "returned",
                       result |-> TRUE,
                       readable |->
                           ConnReady(mConnectionFD, stream, peerClosed)]
            /\ UNCHANGED <<mConnectionFD, openFds, pending, stream>>
    /\ UNCHANGED <<mListeningSocketFD, peerClosed>>
    /\ EndpointFrame

\* a peer connects to the listening socket
PeerConnects ==
    /\ mListeningSocketFD # -1
    /\ pending < MaxPending
    /\ pending' = pending + 1
    /\ UNCHANGED <<mConnectionFD, mListeningSocketFD, openFds, stream,
                   peerClosed, call, ret>>
    /\ EndpointFrame

\* the peer sends a frame
PeerSends ==
    /\ mConnectionFD # -1
    /\ ~peerClosed
    /\ Len(stream) < MaxInbox * totalLength
    /\ stream' = stream \o SecondFrame
    /\ UNCHANGED <<mConnectionFD, mListeningSocketFD, openFds, pending,
                   peerClosed, call, ret>>
    /\ EndpointFrame

NextEndpoint ==
    \/ CloseConnection
    \/ \E o \in {"ok", "socket", "bind", "listen"} : OpenListeningSocket(o)
    \/ \E o \in ConnectOutcomes : OpenSocket(o)
    \/ \E f \in BOOLEAN, d \in {<<>>, SecondFrame} :
           AcceptConnectionIfNeeded(f, d)
    \/ \E sf \in BOOLEAN, af \in BOOLEAN, d \in {<<>>, SecondFrame} :
           IsDataAvailable(sf, af, d)
    \/ PeerConnects
    \/ PeerSends
    \/ PeerCloses

SpecEndpoint == InitEndpoint /\ [][NextEndpoint]_vars

\* C10: isDataAvailable returns true if and only if there is data to read
\* on the connected socket; with a connection open and only the listening
\* socket ready (a second peer waiting) it returns false.
C10_TrueIffDataOnConnection ==
    (ret.fn = "isDataAvailable" /\ ret.how = "returned") =>
        (ret.result <=> ret.readable)

\* C11: getNextTLVType does not move the cursor and returns NONE exactly
\* when fewer than 4 bytes remain after the cursor or the cursor plus the
\* declared total length is beyond the view; otherwise it returns the type
\* stored at the cursor (so a last TLV of total length 4 ending at the end
\* of the view is reported with its type).
C11_NextTLVType ==
    ret.fn = "getNextTLVType" =>
        /\ ret.after = ret.before
        /\ ret.type =
             IF ret.size - ret.before < headerLength THEN TLV_NONE
             ELSE IF ret.before + ret.stored[2] > ret.size THEN TLV_NONE
             ELSE ret.stored[1]

\* ---------------------------------------------------------------------
\* Specification of CommonHeaderEncoder::messageClass and entityClass
\* called in any order on a header with any previous flags and ts_rc;
\* call keeps the last two calls
\* ---------------------------------------------------------------------
PriorFlags == {0, 90, 255}

PriorTsRc == {0, 4660, 49407, 65535}

\* a buffer with the given flags and ts_rc, then the encoder's constructor
PriorHeader(f, flags, tsrc) ==
    SetDefaults(PrimSetUint16At([Filled(f) EXCEPT ![flagsOffset] = flags],
                                tsrcOffset, tsrc),
                Buffer)

NoClassCall == [op |-> "none"]

InitClass ==
    /\ \E f \in Fills, flags \in PriorFlags, tsrc \in PriorTsRc :
          mem = PriorHeader(f, flags, tsrc)
    /\ encPhase = "open" /\ encOffset = totalLength
    /\ hdr = NoHeader /\ added = <<>>
    /\ call = [fn |-> "class", prev |-> NoClassCall, last |-> NoClassCall]
    /\ ret = NoCall
    /\ DecIdle /\ IoIdle /\ PoolIdle

\* what a call is remembered by: flags and ts_rc before and after, and
\* whether every other byte of the buffer is as it was
ClassCall(op, arg, before, after) ==
    [op |-> op, arg |-> arg,
     flags |-> before[flagsOffset], tsrc |-> PrimGetUint16At(before, tsrcOffset),
     flagsAfter |-> after[flagsOffset],
     tsrcAfter |-> PrimGetUint16At(after, tsrcOffset),
     restSame |-> \A i \in DOMAIN before :
                     i \in {flagsOffset, tsrcOffset, tsrcOffset + 1}
                     \/ after[i] = before[i]]

\* header().messageClass(mc)
ClassMessageClass(mc) ==
    /\ call.fn = "class"
    /\ mem' = EncMessageClass(mem, Buffer, mc)
    /\ hdr' = [hdr EXCEPT !.mc = mc]
    /\ call' = [call EXCEPT !.prev = call.last,
                            !.last = ClassCall("messageClass", mc, mem, mem')]
    /\ UNCHANGED <<encPhase, encOffset, added, ret, decVars, ioVars, poolVars>>

\* header().entityClass(ec)
ClassEntityClass(ec) ==
    /\ call.fn = "class"
    /\ mem' = EncEntityClass(mem, Buffer, ec)
    /\ hdr' = [hdr EXCEPT !.ec = ec]
    /\ call' = [call EXCEPT !.prev = call.last,
                            !.last = ClassCall("entityClass", ec, mem, mem')]
    /\ UNCHANGED <<encPhase, encOffset, added, ret, decVars, ioVars, poolVars>>

NextClass ==
    \/ \E mc \in MessageClass : ClassMessageClass(mc)
    \/ \E ec \in EntityClasses : ClassEntityClass(ec)

SpecClass == InitClass /\ [][NextClass]_vars

Low14(tsrc) == tsrc % 16384

High2(tsrc) == tsrc \div 16384

\* C12: messageClass(mc) called twice leaves flags and ts_rc as one call
\* does; messageClass with a request class and then with a response class
\* leaves the low 14 bits of ts_rc as they were before both calls.
C12_MessageClassIdempotent ==
    (call.fn = "class" /\ call.prev.op = "messageClass"
       /\ call.last.op = "messageClass") =>
        /\ call.prev.arg = call.last.arg =>
               /\ call.last.flagsAfter = call.prev.flagsAfter
               /\ call.last.tsrcAfter = call.prev.tsrcAfter
        /\ (IsRequest(call.prev.arg) /\ ~IsRequest(call.last.arg)) =>
               Low14(call.last.tsrcAfter) = Low14(call.prev.tsrc)

C12_Witness ==
    /\ call.fn = "class"
    /\ call.prev.op = "messageClass" /\ call.prev.arg = "REQUEST_GET"
    /\ call.last.op = "messageClass" /\ call.last.arg = "RESPONSE_FAILURE"
    /\ Low14(call.prev.tsrc) = 4660 /\ call.prev.flags = 90

\* C13: messageClass changes only flag bit 7 and ts_rc bits 14..15,
\* entityClass changes only ts_rc bits 0..13, and neither changes another
\* byte of the header, in any order and number of calls.
C13_ClassIndependence ==
    (call.fn = "class" /\ call.last.op # "none") =>
        /\ call.last.restSame
        /\ call.last.op = "messageClass" =>
               /\ call.last.flagsAfter % 128 = call.last.flags % 128
               /\ Low14(call.last.tsrcAfter) = Low14(call.last.tsrc)
        /\ call.last.op = "entityClass" =>
               /\ call.last.flagsAfter = call.last.flags
               /\ High2(call.last.tsrcAfter) = High2(call.last.tsrc)

C13_Witness ==
    /\ call.fn = "class"
    /\ call.prev.op = "messageClass" /\ call.prev.arg = "REQUEST_DEL"
    /\ call.last.op = "entityClass" /\ call.last.arg = ECHO_SERVICE
    /\ call.last.flags = 127 /\ call.last.tsrc = 49151
    /\ call.last.tsrcAfter = 32768 + ECHO_SERVICE

\* ---------------------------------------------------------------------
\* PacketBufferSizedPool: acquiring views, copying them, dropping them
\* ---------------------------------------------------------------------

\* the largest initial_capacity tried
MaxInitialCapacity == 2

\* the largest number of views alive at the same time
MaxViews == 3

\* the largest number of getBufferWritableView() calls counted
MaxAcquires == 3

NoView == [elem |-> 0, writable |-> FALSE]

ViewSlots == 1..MaxViews

\* the elements owned by the mBufferPtr of some live view
Held(vs) == {vs[i].elem : i \in {j \in DOMAIN vs : vs[j].elem # 0}}

\* std::shared_ptr: the number of owners of element e
UseCount(vs, e) == Cardinality({i \in DOMAIN vs : vs[i].elem = e})

\* std::shared_ptr runs the deleter for a view that releases the
\* ownership of everything: never for every owner
DeleterRuns_ForEveryOwner(vs, i) == vs[i].elem # 0

\* std::shared_ptr runs the deleter when its last owner goes
DeleterRuns(vs, i) == vs[i].elem # 0 /\ UseCount(vs, vs[i].elem) = 1

\* getPacketBuffer() growing the pool at every call
GetPacketBuffer_AlwaysGrows(pool, free) ==
    LET free1 == Append(free, pool + 1)
    IN  [mPool |-> pool + 1, mFree |-> SubSeq(free1, 1, Len(free1) - 1),
         p |-> free1[Len(free1)]]

\* getPacketBuffer(): growBy(1) when mFree is empty, then mFree.back()
\* is taken and popped
GetPacketBuffer(pool, free) ==
    LET grow == free = <<>>
        pool1 == IF grow THEN pool + 1 ELSE pool
        free1 == IF grow THEN Append(free, pool + 1) ELSE free
    IN  [mPool |-> pool1, mFree |-> SubSeq(free1, 1, Len(free1) - 1),
         p |-> free1[Len(free1)]]

\* releaseToPool(p)
ReleaseToPool(free, p) == Append(free, p)

\* PacketBufferSizedPool(initial_capacity): every element is free
InitPool ==
    /\ \E n \in 0..MaxInitialCapacity :
          /\ mPool = n
          /\ mFree = [i \in 1..n |-> i]
          /\ call = [fn |-> "pool", initial_capacity |-> n, peak |-> 0,
                     acquires |-> 0]
    /\ views = [i \in ViewSlots |-> NoView]
    /\ ret = NoCall
    /\ mem = <<>>
    /\ EncIdle /\ DecIdle /\ IoIdle

PoolFrame == UNCHANGED <<mem, encVars, decVars, ioVars>>

FreeSlot(vs) == CHOOSE i \in DOMAIN vs : vs[i].elem = 0 /\
                    \A j \in DOMAIN vs : vs[j].elem = 0 => i <= j

\* what an operation found and left
PoolCall(fn, e, last) ==
    [fn |-> fn, elem |-> e, last |-> last, capacity |-> mPool,
     free |-> mFree, owners |-> UseCount(views, e),
     capacityAfter |-> mPool', freeAfter |-> mFree',
     ownersAfter |-> UseCount(views', e)]

Max(a, b) == IF a > b THEN a ELSE b

\* pool.getBufferWritableView()
GetBufferWritableView ==
    /\ call.fn = "pool" /\ call.acquires < MaxAcquires
    /\ \E i \in ViewSlots : views[i].elem = 0
    /\ LET r == GetPacketBuffer(mPool, mFree)
       IN  /\ mPool' = r.mPool
           /\ mFree' = r.mFree
           /\ views' = [views EXCEPT ![FreeSlot(views)] =
                            [elem |-> r.p, writable |-> TRUE]]
           /\ ret' = PoolCall("acquire", r.p, FALSE)
    /\ call' = [call EXCEPT !.acquires = @ + 1,
                            !.peak = Max(@, Cardinality(Held(views')))]
    /\ PoolFrame

\* a view made from view i: its copy, a getSub() of it, or (writable
\* FALSE) the BufferView it converts to; all copy its mBufferPtr
CopyView(i, writable) ==
    /\ call.fn = "pool"
    /\ views[i].elem # 0
    /\ writable => views[i].writable
    /\ \E j \in ViewSlots : views[j].elem = 0
    /\ views' = [views EXCEPT ![FreeSlot(views)] =
                     [elem |-> views[i].elem, writable |-> writable]]
    /\ UNCHANGED <<mPool, mFree, call>>
    /\ ret' = PoolCall("copy", views[i].elem, FALSE)
    /\ PoolFrame

\* view i is destroyed: its mBufferPtr gives up the element, and the
\* deleter made by getPacketBuffer() gives it to releaseToPool()
DropView(i) ==
    /\ call.fn = "pool"
    /\ views[i].elem # 0
    /\ views' = [views EXCEPT ![i] = NoView]
    /\ mFree' = IF DeleterRuns(views, i)
                THEN ReleaseToPool(mFree, views[i].elem) ELSE mFree
    /\ UNCHANGED <<mPool, call>>
    /\ ret' = PoolCall("drop", views[i].elem,
                       UseCount(views, views[i].elem) = 1)
    /\ PoolFrame

NextPool ==
    \/ GetBufferWritableView
    \/ \E i \in ViewSlots, w \in BOOLEAN : CopyView(i, w)
    \/ \E i \in ViewSlots : DropView(i)

SpecPool == InitPool /\ [][NextPool]_vars

\* C14: capacity never exceeds max(N, K), K the most buffers held at the
\* same time; capacity grows, by exactly one, only in an acquire that
\* finds the free list empty; with every view dropped free_count equals
\* capacity.
C14_PoolRelease ==
    call.fn = "pool" =>
        /\ mPool <= Max(call.initial_capacity, call.peak)
        /\ ret.fn # "none" =>
               ret.capacityAfter =
                   IF ret.fn = "acquire" /\ ret.free = <<>>
                   THEN ret.capacity + 1 ELSE ret.capacity
        /\ Held(views) = {} => Len(mFree) = mPool

C14_Witness ==
    /\ call.fn = "pool" /\ call.initial_capacity = 1
    /\ call.acquires = MaxAcquires /\ call.peak = 1
    /\ ret.fn = "drop" /\ Held(views) = {}
    /\ mPool = 1 /\ Len(mFree) = 1

\* C15: free_count plus the number of buffers held equals capacity; no
\* element is twice in the free list; no element is both free and owned
\* by a live view; a drop returns the element exactly when the view was
\* the last one owning it; an acquire hands out an element no view owns.
C15_PoolSafety ==
    call.fn = "pool" =>
        /\ Len(mFree) + Cardinality(Held(views)) = mPool
        /\ \A i, j \in DOMAIN mFree : mFree[i] = mFree[j] => i = j
        /\ \A i \in DOMAIN mFree : mFree[i] \notin Held(views)
        /\ ret.fn = "drop" =>
               /\ ret.last = (ret.ownersAfter = 0)
               /\ ret.freeAfter = IF ret.last THEN Append(ret.free, ret.elem)
                                  ELSE ret.free
        /\ ret.fn = "acquire" => ret.owners = 0 /\ ret.ownersAfter = 1

C15_Witness ==
    /\ call.fn = "pool" /\ ret.fn = "drop" /\ ~ret.last
    /\ ret.owners = 3 /\ Len(mFree) = 1 /\ mPool = 2
    /\ \E i, j \in ViewSlots : /\ views[i].elem = ret.elem
                               /\ views[j].elem = ret.elem
                               /\ views[i].writable /\ ~views[j].writable

\* ---------------------------------------------------------------------
\* Views of one region: sub-views are taken, and values written through
\* the writable ones
\* ---------------------------------------------------------------------

\* size of the region
AliasSize == 3

\* the largest number of views of the region alive at the same time
MaxAliasViews == 2

\* the largest number of writes in a behaviour
MaxWrites == 1

AliasSlots == 1..MaxAliasViews

\* the values written, with the bytes they are made of
AliasValues ==
    {[kind |-> "u8", val |-> 165, bytes |-> <<165>>],
     [kind |-> "u16", val |-> 42406, bytes |-> <<165, 166>>],
     [kind |-> "u16", val |-> 258, bytes |-> <<1, 2>>]}

\* BufferWritableView(pb): the view of the whole of a new region
InitAlias ==
    /\ mem = [i \in 0..(AliasSize - 1) |-> 0]
    /\ mPool = 0 /\ mFree = <<>>
    /\ views = [i \in AliasSlots |->
                   IF i = 1 THEN [elem |-> 1, writable |-> TRUE, base |-> 0,
                                  size |-> AliasSize]
                   ELSE [elem |-> 0, writable |-> FALSE, base |-> 0,
                         size |-> 0]]
    /\ call = [fn |-> "alias", writes |-> 0]
    /\ ret = NoCall
    /\ EncIdle /\ DecIdle /\ IoIdle

\* getSub(offset, len) of a view that does not throw
GetSubView(v, offset, len, writable) ==
    [elem |-> v.elem, writable |-> writable, base |-> v.base + offset,
     size |-> len]

\* views[i].getSub(offset, len), kept as a BufferWritableView or as a
\* BufferView
AliasGetSub(i, offset, len, writable) ==
    /\ call.fn = "alias"
    /\ views[i].elem # 0
    /\ writable => views[i].writable
    /\ \E j \in AliasSlots : views[j].elem = 0
    /\ ~OutOfBounds(View(views[i].base, views[i].size), offset, len)
    /\ views' = [views EXCEPT ![FreeSlot(views)] =
                     GetSubView(views[i], offset, len, writable)]
    /\ ret' = NoCall
    /\ UNCHANGED <<mem, call, mPool, mFree>>
    /\ PoolFrame

\* views[i].setUint8At(offset, val) / setUint16At(offset, val)
AliasWrite(i, x, offset) ==
    /\ call.fn = "alias" /\ call.writes < MaxWrites
    /\ views[i].elem # 0 /\ views[i].writable
    /\ LET v == View(views[i].base, views[i].size)
           r == IF x.kind = "u8" THEN SetUint8At(Start(mem), v, offset, x.val)
                ELSE SetUint16At(Start(mem), v, offset, x.val)
       IN  /\ mem' = r.mem
           /\ ret' = [fn |-> "write", ok |-> r.ok, view |-> views[i],
                      offset |-> offset, bytes |-> x.bytes,
                      viewsBefore |-> views]
    /\ call' = [call EXCEPT !.writes = @ + 1]
    /\ UNCHANGED <<views, mPool, mFree, encVars, decVars, ioVars>>

NextAlias ==
    \/ \E i \in AliasSlots, offset \in 0..AliasSize, len \in 0..AliasSize,
          w \in BOOLEAN : AliasGetSub(i, offset, len, w)
    \/ \E i \in AliasSlots, x \in AliasValues, offset \in 0..AliasSize :
          AliasWrite(i, x, offset)

SpecAlias == InitAlias /\ [][NextAlias]_vars

\* getUint8At(p) through view w, p inside the view
SeenAt(m, w, p) == ReadAt(m, View(w.base, w.size), "u8", p).value[1]

\* C16: after a write at offset o through a view at region offset a,
\* every view of the region, at region offset b, reads the bytes written
\* at its offsets a + o - b onwards, wherever these are inside it; and
\* no view has another offset or length than before the write.
C16_Aliasing ==
    (call.fn = "alias" /\ ret.fn = "write" /\ ret.ok) =>
        /\ views = ret.viewsBefore
        /\ \A j \in AliasSlots : views[j].elem # 0 =>
              \A k \in 1..Len(ret.bytes) :
                 LET p == ret.view.base + ret.offset + (k - 1)
                              - views[j].base
                 IN  (0 <= p /\ p < views[j].size) =>
                         SeenAt(mem, views[j], p) = ret.bytes[k]

C16_Witness ==
    /\ call.fn = "alias" /\ ret.fn = "write" /\ ret.ok
    /\ ret.view.base = 1 /\ ret.view.size = 2 /\ ret.offset = 0
    /\ ret.bytes = <<165, 166>>
    /\ views[1].base = 0 /\ SeenAt(mem, views[1], 2) = 166
    /\ SeenAt(mem, views[1], 0) = 0

\* ---------------------------------------------------------------------
\* The example programs: the echo request of agentclient.cpp and the
\* failure response of simpleError.cpp, encoded into a new message buffer
\* and decoded
\* ---------------------------------------------------------------------

\* "Is there anybody out there?"
EchoText ==
    <<73, 115, 32, 116, 104, 101, 114, 101, 32, 97, 110, 121, 98, 111, 100,
      121, 32, 111, 117, 116, 32, 116, 104, 101, 114, 101, 63>>

\* "12345"
ErrorText == <<49, 50, 51, 52, 53>>

\* stringData(s) keeping the characters and no NUL
StringData_NoNul(s) ==
    LET st == SetCStringAt(Start(Filled(0)), Buffer, 0, s)
    IN  TLVBinaryData(ViewBytes(st.mem, View(0, Len(s))))

\* TLVBinaryData().stringData(s): setCStringAt(0, s) into a new message
\* buffer, and shrinkTo(s.size() + 1)
StringData(s) ==
    LET st == SetCStringAt(Start(Filled(0)), Buffer, 0, s)
    IN  TLVBinaryData(ViewBytes(st.mem, View(0, Len(s) + 1)))

ScenarioClasses == {"REQUEST_GET", "RESPONSE_FAILURE"}

ScenarioTlvs == {StringData(EchoText), TLVError(42, ErrorText)}

\* MessageDecoder::isFailure
IsFailure(m, v) == DecMessageClass(m, v) = "RESPONSE_FAILURE"

\* IO::makeMessageBuffer(): the bytes of a new buffer are zero
InitScenario ==
    /\ mem = Filled(0)
    /\ EncIdle /\ DecIdle /\ FnIdle /\ IoIdle /\ PoolIdle

NextScenario ==
    \/ NewEncoder
    \/ \E mc \in ScenarioClasses : HeaderMessageClass(mc)
    \/ HeaderEntityClass(ECHO_SERVICE)
    \/ \E tlv \in ScenarioTlvs : added = <<>> /\ Add(tlv)
    \/ End
    \/ NewDecoder
    \/ \E type \in {TLV_ERROR, TLV_BINARY_DATA} : Get(type)

SpecScenario == InitScenario /\ [][NextScenario]_vars

\* C17: the ECHO_SERVICE REQUEST_GET frame with the one BINARY_DATA TLV
\* of "Is there anybody out there?" is 56 bytes long after end(), begins
\* with 02 00 C0 FF 00 00 00 38, and has at offset 24 the TLV header of
\* type 4 and length 32.
C17_ScenarioS1 ==
    (encPhase = "closed" /\ hdr.mc = "REQUEST_GET" /\ hdr.ec = ECHO_SERVICE
       /\ added = <<StringData(EchoText)>>) =>
        /\ MessageEncoderData(Buffer, encOffset).size = 56
        /\ ViewBytes(mem, View(0, PreambleSize)) = <<2, 0, 192, 255, 0, 0, 0, 56>>
        /\ PrimGetUint16At(mem, totalLength + TLVtypeOffset) = 4
        /\ PrimGetUint16At(mem, totalLength + TLVlengthOffset) = 32

C17_Witness ==
    /\ encPhase = "closed" /\ hdr.mc = "REQUEST_GET" /\ hdr.ec = ECHO_SERVICE
    /\ Len(added) = 1 /\ added[1].type = TLV_BINARY_DATA
    /\ Len(added[1].data) = 28 /\ added[1].data[28] = 0
    /\ mem[7] = 56

\* C18 as stated: the RESPONSE_FAILURE frame with TLVError(42, "12345")
\* has flag bit 7 set, ts_rc bits 15..14 = 10b, total length 36 and the
\* bytes 00 01 00 0A 00 2A 31 32 33 34 35 00 at offset 24; a decoder over
\* it reports isFailure() and its get gives errcode 42 and message "12345".
C18_ScenarioS3_LengthTen ==
    (encPhase = "closed" /\ hdr.mc = "RESPONSE_FAILURE"
       /\ added = <<TLVError(42, ErrorText)>>) =>
        /\ DecFlags(mem, Buffer) \div 128 = 1
        /\ DecTsRc(mem, Buffer) \div 16384 = 2
        /\ MessageEncoderData(Buffer, encOffset).size = 36
        /\ DecTotalLengthBytes(mem, Buffer) = <<0, 36>>
        /\ ViewBytes(mem, View(totalLength, 12)) =
               <<0, 1, 0, 10, 0, 42, 49, 50, 51, 52, 53, 0>>
        /\ decPhase \in {"none", "open"}
        /\ decPhase = "open" => IsFailure(mem, View(0, decSize))
        /\ lastGet.type = TLV_ERROR =>
               got = <<[type |-> TLV_ERROR, errcode |-> 42,
                        message |-> ErrorText]>>

\* C18: the RESPONSE_FAILURE frame with TLVError(42, "12345") has flag
\* bit 7 set, ts_rc bits 15..14 = 10b, total length 36 and the bytes
\* 00 01 00 0C 00 2A 31 32 33 34 35 00 at offset 24, the TLV length 12
\* counting the four header bytes; a decoder over it reports isFailure()
\* and its get gives errcode 42 and message "12345".
C18_ScenarioS3 ==
    (encPhase = "closed" /\ hdr.mc = "RESPONSE_FAILURE"
       /\ added = <<TLVError(42, ErrorText)>>) =>
        /\ DecFlags(mem, Buffer) \div 128 = 1
        /\ DecTsRc(mem, Buffer) \div 16384 = 2
        /\ MessageEncoderData(Buffer, encOffset).size = 36
        /\ DecTotalLengthBytes(mem, Buffer) = <<0, 36>>
        /\ ViewBytes(mem, View(totalLength, 12)) =
               <<0, 1, 0, 12, 0, 42, 49, 50, 51, 52, 53, 0>>
        /\ decPhase \in {"none", "open"}
        /\ decPhase = "open" => IsFailure(mem, View(0, decSize))
        /\ lastGet.type = TLV_ERROR =>
               got = <<[type |-> TLV_ERROR, errcode |-> 42,
                        message |-> ErrorText]>>

C18_Witness ==
    /\ encPhase = "closed" /\ hdr.mc = "RESPONSE_FAILURE"
    /\ added = <<TLVError(42, ErrorText)>>
    /\ decPhase = "open" /\ decSize = 36
    /\ lastGet = [err |-> "ok", type |-> TLV_ERROR]
    /\ Len(got) = 1 /\ got[1].errcode = 42

\* ---------------------------------------------------------------------
\* Construction of a CommonHeaderDecoder or a MessageDecoder over views
\* of any size and version byte
\* ---------------------------------------------------------------------

\* the version bytes found at offset 0
GuardVersions == {0, 1, 2, 3, 7, 255}

\* the sizes of the views
GuardSizes == {0, 1, totalLength, DecoderMinSize - 1, DecoderMinSize,
               DecoderMinSize + 1, BufSize}

DecoderKinds == {"CommonHeaderDecoder", "MessageDecoder"}

InitGuard ==
    /\ mem \in {[Filled(f) EXCEPT ![versionOffset] = v] :
                   f \in Fills, v \in GuardVersions}
    /\ EncIdle /\ DecIdle /\ FnIdle /\ IoIdle /\ PoolIdle

\* CommonHeaderDecoder(view) or MessageDecoder(view), the view being the
\* first size bytes of the buffer; a constructor that throws leaves no
\* object
ConstructDecoder(kind, size) ==
    /\ LET v == View(0, size)
           r == DecoderSuitable(mem, v)
       IN  /\ decPhase' = IF r = "ok" THEN "open" ELSE r
           /\ decSize' = IF r = "ok" THEN size ELSE 0
           /\ decOffset' = IF r = "ok" /\ kind = "MessageDecoder"
                           THEN totalLength ELSE 0
    /\ got' = <<>>
    /\ lastGet' = NoGet
    /\ call' = [fn |-> "decoder", kind |-> kind, size |-> size,
                version |-> mem[versionOffset], before |-> mem]
    /\ UNCHANGED <<mem, encVars, ret, ioVars, poolVars>>

NextGuard ==
    \E kind \in DecoderKinds, size \in GuardSizes :
        ConstructDecoder(kind, size)

SpecGuard == InitGuard /\ [][NextGuard]_vars

\* C19: the construction of a decoder over a view fails exactly when the
\* view is shorter than 28 bytes or its byte at offset 0 is not 2; when
\* it fails there is no decoder, and the bytes of the view are as before.
C19_DecoderGuard ==
    call.fn = "decoder" =>
        /\ (decPhase # "open") = (call.size < 28 \/ call.version # 2)
        /\ decPhase # "open" =>
               decSize = 0 /\ decOffset = 0 /\ got = <<>>
        /\ mem = call.before

C19_Witness ==
    /\ call.fn = "decoder" /\ call.kind = "MessageDecoder"
    /\ call.size = 27 /\ call.version = 2
    /\ decPhase = "length_error"

\* ---------------------------------------------------------------------
\* MessageDecoder::get with objects of the type of the TLV at the cursor
\* and of other types; ret keeps the last call and the one before it
\* ---------------------------------------------------------------------

\* the TLVs added
GetTlvs ==
    {TLVError(4660, <<79, 75>>), TLVBinaryData(<<72, 105, 0>>),
     TLVPeriodicityMs(<<65535, 1500>>)}

NoGetCall == [err |-> "none"]

InitGet ==
    /\ mem \in {Filled(f) : f \in Fills}
    /\ EncIdle /\ DecIdle /\ FnIdle /\ IoIdle /\ PoolIdle

\* the type stored at the cursor, -1 when no TLV header is left there
StoredType(m, buf, offset) ==
    IF OutOfBounds(buf, offset, headerLength) THEN -1
    ELSE PrimGetUint16At(m, buf.base + offset + TLVtypeOffset)

\* the total length declared at the cursor, -1 when no TLV header is left
DeclaredLength(m, buf, offset) ==
    IF OutOfBounds(buf, offset, headerLength) THEN -1
    ELSE PrimGetUint16At(m, buf.base + offset + TLVlengthOffset)

\* the length obj.decode() returns to get, -1 when get does not call it
\* or it does not return
ReportedLength(m, buf, offset, obj) ==
    LET tlvLength == DeclaredLength(m, buf, offset)
        subBuffer_V == View(buf.base + offset + headerLength,
                            tlvLength - headerLength)
    IN  IF \/ StoredType(m, buf, offset) # obj.type
           \/ OutOfBounds(buf, offset + headerLength,
                          tlvLength - headerLength)
           \/ DecodeOverruns(obj, m, subBuffer_V)
           \/ ~Decode(obj, m, subBuffer_V).ok
        THEN -1
        ELSE Decode(obj, m, subBuffer_V).len

\* what a get can do: a decode that reads on after the end of the region
\* stops the program, or ends in an exception the allocator raises
GetOutcomes(err) ==
    IF err = "Overrun" THEN {"Fault", "DecodeError"} ELSE {err}

\* messageDecoder.get(obj) with a fresh object of the given type
GetTracked(type) ==
    /\ decPhase = "open"
    /\ Len(got) < MaxTlvs
    /\ LET buf == View(0, decSize)
           obj == FreshTLV(type)
           r == MessageDecoderGet(mem, buf, decOffset, obj)
       IN \E how \in GetOutcomes(r.err) :
          /\ decOffset' = r.offset
          /\ decPhase' = IF how = "Fault" THEN "fault" ELSE decPhase
          /\ got' = IF r.err = "ok" THEN Append(got, r.tlv) ELSE got
          /\ lastGet' = [err |-> how, type |-> type]
          /\ ret' = [fn |-> "get", err |-> how, type |-> type,
                     stored |-> StoredType(mem, buf, decOffset),
                     declared |-> DeclaredLength(mem, buf, decOffset),
                     reported |-> ReportedLength(mem, buf, decOffset, obj),
                     before |-> decOffset, after |-> r.offset,
                     obj |-> obj, objAfter |-> r.tlv,
                     prev |-> IF ret.fn = "get"
                              THEN [err |-> ret.err, before |-> ret.before,
                                    stored |-> ret.stored]
                              ELSE NoGetCall]
    /\ call' = NoCall
    /\ UNCHANGED <<mem, encPhase, encOffset, hdr, added, decSize>>
    /\ UNCHANGED <<ioVars, poolVars>>

NextGet ==
    \/ (encPhase = "none" /\ NewEncoder)
    \/ \E t \in GetTlvs : Add(t)
    \/ End
    \/ NewDecoder
    \/ \E t \in TlvTypes : GetTracked(t)

SpecGet == InitGet /\ [][NextGet]_vars

\* C20: a get with an object whose type differs from the type of the TLV
\* header at the cursor fails with the type-mismatch error, leaves the
\* cursor where it was and the object as it was; the get that follows
\* with an object of the stored type decodes the TLV at that cursor.
C20_GetTypeMismatch ==
    ret.fn = "get" =>
        /\ (ret.stored # -1 /\ ret.stored # ret.type) =>
               /\ ret.err = "TypeMismatch"
               /\ ret.after = ret.before /\ decOffset = ret.before
               /\ ret.objAfter = ret.obj
        /\ ret.err = "TypeMismatch" => ret.stored # ret.type
        /\ (ret.prev.err = "TypeMismatch" /\ ret.type = ret.prev.stored) =>
               /\ ret.before = ret.prev.before
               /\ ret.err = "ok"
               /\ got # <<>> /\ got[Len(got)] = added[Len(got)]

C20_Witness ==
    /\ ret.fn = "get" /\ ret.prev.err = "TypeMismatch"
    /\ ret.type = ret.prev.stored /\ ret.err = "ok"
    /\ Len(got) = MaxTlvs /\ got = added
    /\ ret.type = TLV_PERIODICITY

\* ---------------------------------------------------------------------
\* MessageDecoder::get on received frames whose TLV declares any length
\* ---------------------------------------------------------------------

\* the largest total length declared
MaxDeclared == 12

\* type and value bytes of the TLV received
LengthBodies ==
    {<<TLV_PERIODICITY, <<0, 0, 5, 220>>>>,
     <<TLV_PERIODICITY, <<0, 0, 5, 220, 9, 9>>>>,
     <<TLV_ERROR, <<0, 42, 79, 75, 0>>>>,
     <<TLV_ERROR, <<0, 42, 79, 75, 0, 88, 0>>>>,
     <<TLV_ERROR, <<0, 42, 79, 75>>>>,
     <<TLV_BINARY_DATA, <<72, 105, 0>>>>,
     <<TLV_KEY_VALUE_STRING_PAIRS, <<107, 0, 118, 0>>>>}

\* a received frame: the header, the TLV header with the declared length,
\* the value bytes; the rest of the buffer is zero
LengthFrame(type, declared, body) ==
    CopyBytes(
        PrimSetUint16At(
            PrimSetUint16At([Filled(0) EXCEPT ![versionOffset] = 2],
                            totalLength + TLVtypeOffset, type),
            totalLength + TLVlengthOffset, declared),
        totalLength + headerLength, body)

InitLength ==
    /\ \E b \in LengthBodies, declared \in 0..MaxDeclared :
          mem = LengthFrame(b[1], declared, b[2])
    /\ EncIdle /\ DecIdle /\ FnIdle /\ IoIdle /\ PoolIdle

\* the sizes of the views the decoder is constructed over
LengthSizes ==
    {totalLength + headerLength + Len(b[2]) : b \in LengthBodies}

NextLength ==
    \/ \E size \in LengthSizes :
          decPhase = "none" /\ ConstructDecoder("MessageDecoder", size)
    \/ \E t \in TlvTypes : GetTracked(t)

SpecLength == InitLength /\ [][NextLength]_vars

\* C21: a get whose decode() reports a length that, plus 4, differs from
\* the declared total length fails; a get that fails leaves the cursor
\* where it was; a get that succeeds advances it by the declared length.
C21_LengthMismatch ==
    ret.fn = "get" =>
        /\ (ret.reported # -1 /\ ret.reported + headerLength # ret.declared)
               => ret.err = "Malformed"
        /\ ret.err # "ok" => ret.after = ret.before /\ decOffset = ret.before
        /\ ret.err = "ok" =>
               /\ ret.after = ret.before + ret.declared
               /\ decOffset = ret.after
               /\ ret.reported + headerLength = ret.declared

C21_Witness ==
    /\ ret.fn = "get" /\ ret.type = TLV_ERROR /\ ret.stored = TLV_ERROR
    /\ ret.declared = 11 /\ ret.reported = 5
    /\ ret.err = "Malformed" /\ decOffset = totalLength
    /\ ret.objAfter.errcode = 42

\* ---------------------------------------------------------------------
\* MessageEncoder::add into views that leave little room after the
\* header, then end()
\* ---------------------------------------------------------------------

\* the most bytes a view has after the header
MaxRoom == 20

\* the TLVs added
AddTlvs ==
    {TLVError(4660, <<49, 50, 51, 52, 53>>), TLVBinaryData(<<72, 105, 0>>),
     TLVKeyValueStringPairs(<<<<<<107>>, <<118>>>>>>), TLVList(TLV_CELL, 2),
     TLVPeriodicityMs(<<65535, 1500>>), TLVCell(503, <<1, 2>>, <<65535, 0>>, 100)}

InitAdd ==
    /\ mem \in {Filled(f) : f \in Fills}
    /\ EncIdle /\ DecIdle /\ FnIdle /\ IoIdle /\ PoolIdle

\* MessageEncoder::MessageEncoder over the first size bytes of the buffer
NewEncoderOver(size) ==
    /\ encPhase = "none"
    /\ EncoderSuitable(View(0, size))
    /\ mem' = SetDefaults(mem, View(0, size))
    /\ encPhase' = "open"
    /\ encOffset' = totalLength
    /\ hdr' = NoHeader
    /\ added' = <<>>
    /\ call' = [fn |-> "adds", size |-> size, failed |-> FALSE]
    /\ UNCHANGED <<ret, decVars, ioVars, poolVars>>

\* messageEncoder.add(tlv); ret keeps the cursor and the bytes before it
\* as the call found them
AddTracked(tlv) ==
    /\ call.fn = "adds" /\ encPhase = "open"
    /\ Len(added) < MaxTlvs
    /\ LET r == MessageEncoderAdd(mem, View(0, call.size), encOffset, tlv)
       IN /\ mem' = r.mem
          /\ encOffset' = r.offset
          /\ added' = IF r.ok THEN Append(added, tlv) ELSE added
          /\ call' = [call EXCEPT !.failed = @ \/ ~r.ok]
          /\ ret' = [fn |-> "add", ok |-> r.ok, tlv |-> tlv,
                     before |-> encOffset, remaining |-> call.size - encOffset,
                     prefix |-> ViewBytes(mem, View(0, encOffset))]
    /\ UNCHANGED <<encPhase, hdr, decVars, ioVars, poolVars>>

\* messageEncoder.end()
EndTracked ==
    /\ call.fn = "adds" /\ encPhase = "open"
    /\ mem' = MessageEncoderEnd(mem, View(0, call.size), encOffset)
    /\ encPhase' = "closed"
    /\ UNCHANGED <<encOffset, hdr, added, call, ret, decVars, ioVars,
                   poolVars>>

NextAdd ==
    \/ \E size \in totalLength..(totalLength + MaxRoom) : NewEncoderOver(size)
    \/ \E tlv \in AddTlvs : AddTracked(tlv)
    \/ EndTracked

SpecAdd == InitAdd /\ [][NextAdd]_vars

\* the TLV headers of tlvs stand one after the other from offset on
RECURSIVE HeadersAt(_, _, _)
HeadersAt(m, offset, tlvs) ==
    \/ tlvs = <<>>
    \/ /\ PrimGetUint16At(m, offset + TLVtypeOffset) = tlvs[1].type
       /\ PrimGetUint16At(m, offset + TLVlengthOffset) =
              headerLength + WireValueLength(tlvs[1])
       /\ HeadersAt(m, offset + headerLength + WireValueLength(tlvs[1]),
                    Tail(tlvs))

\* C22: an add with less room after the cursor than 4 + the value length
\* fails; a failed add leaves the cursor and the bytes before it (header
\* and TLVs added) as they were; end() after it gives a frame whose length
\* is the cursor and holds the TLVs added before.
C22_FailedAdd ==
    call.fn = "adds" =>
        /\ ret.fn = "add" =>
              /\ ret.remaining < headerLength + WireValueLength(ret.tlv)
                     => ~ret.ok
              /\ ~ret.ok =>
                     /\ encOffset = ret.before
                     /\ ViewBytes(mem, View(0, ret.before)) = ret.prefix
                        \/ encPhase = "closed"
        /\ (call.failed /\ encPhase = "closed") =>
              /\ U32ToSize(DecTotalLengthBytes(mem, Buffer)) = encOffset
              /\ encOffset = totalLength + SumTotalLengths(added)
              /\ encOffset <= call.size
              /\ HeadersAt(mem, totalLength, added)
              /\ ret.fn = "add" /\ ~ret.ok =>
                     \A i \in (PreambleSize + 1)..ret.before :
                         ViewBytes(mem, View(0, ret.before))[i] = ret.prefix[i]

C22_Witness ==
    /\ call.fn = "adds" /\ call.failed /\ encPhase = "closed"
    /\ added = <<TLVPeriodicityMs(<<65535, 1500>>)>>
    /\ ret.fn = "add" /\ ~ret.ok /\ ret.tlv.type = TLV_CELL
    /\ ret.before = 32 /\ ret.remaining = 12
    /\ mem[ret.before + headerLength + 1] = 247

\* ---------------------------------------------------------------------
\* IO::readMessage on a connection accepted from a listening socket that
\* is still held
\* ---------------------------------------------------------------------

\* the peer has sent a frame, or its first twelve bytes, or its first four
InitServerRead ==
    /\ mListeningSocketFD = 3 /\ mConnectionFD = 4 /\ openFds = {3, 4}
    /\ pending = 0 /\ peerClosed = FALSE
    /\ \E a \in FirstFrames, n \in {4, 12, totalLength + 4} :
          wire = <<a>> /\ stream = SubSeq(a, 1, Min(n, Len(a)))
    /\ rd = NoRead
    /\ rbuf = [i \in (0 - MaxTransient)..(IoBufSize - 1) |-> 0]
    /\ results = <<>>
    /\ mem = Filled(0)
    /\ EncIdle /\ DecIdle /\ FnIdle /\ PoolIdle

SpecServerRead == InitServerRead /\ [][NextRead]_vars

\* C23: a read(2) of readMessage that gives 0 bytes, or fails with
\* ECONNABORTED / ECONNRESET, in the preamble loop or in the body loop and
\* after any number of bytes read, makes readMessage close the connection
\* and the listening socket and return an empty view, not throw.
C23_ReadEndOfFile ==
    (/\ rd.pc = "done" /\ results # <<>>
     /\ results[Len(results)].log \cap {"eof", "reset", "zero"} # {}) =>
        /\ results[Len(results)].kind = "empty"
        /\ results[Len(results)].bytes = <<>>
        /\ ~results[Len(results)].open
        /\ mConnectionFD = -1 /\ mListeningSocketFD = -1
        /\ openFds = {}

C23_Witness ==
    /\ rd.pc = "done" /\ Len(results) = 1
    /\ "eof" \in results[1].log
    /\ results[1].consumed = 12
    /\ results[1].kind = "empty"
    /\ mConnectionFD = -1 /\ mListeningSocketFD = -1 /\ openFds = {}

\* ---------------------------------------------------------------------
\* IO::writeMessage on an open connection: each write(2) is a step, and
\* takes what the socket takes; stream is what the socket has been given
\* ---------------------------------------------------------------------

NoWrite ==
    [pc |-> "idle", bytesWritten |-> 0, messageLength |-> 0,
     transients |-> 0, log |-> {}]

\* the finalized frames handed to writeMessage
WriteFrames == {WireFrame(2, totalLength, 16), WireFrame(2, totalLength + 4, 64)}

\* the message buffer holds a frame from rawBuffer on; the bytes before
\* rawBuffer are whatever the heap holds there
InitWrite ==
    /\ \/ mConnectionFD = 3 /\ mListeningSocketFD = -1 /\ openFds = {3}
       \/ mConnectionFD = 4 /\ mListeningSocketFD = 3 /\ openFds = {3, 4}
    /\ pending = 0 /\ peerClosed = FALSE
    /\ stream = <<>>
    /\ \E a \in WriteFrames, f \in Fills :
          /\ wire = <<a>>
          /\ rbuf = [i \in (0 - MaxTransient)..(IoBufSize - 1) |->
                        IF i < 0 THEN f
                        ELSE IF i < Len(a) THEN a[i + 1] ELSE 0]
    /\ rd = NoWrite
    /\ results = <<>>
    /\ mem = Filled(0)
    /\ EncIdle /\ DecIdle /\ FnIdle /\ PoolIdle

\* return or throw: the call ends
FinishWrite(w, kind, value) ==
    /\ rd' = [w EXCEPT !.pc = "done"]
    /\ results' = Append(results,
                         [kind |-> kind, value |-> value,
                          bytesWritten |-> w.bytesWritten, log |-> w.log])

\* writeMessage up to the first write(2); one call is followed
WriteMessage ==
    /\ rd.pc \in {"idle", "done"}
    /\ results = <<>>
    /\ IF mConnectionFD = -1
       THEN FinishWrite(NoWrite, "throw", 0)
       ELSE /\ rd' = [NoWrite EXCEPT
                        !.pc = "write",
                        !.messageLength =
                            U32ToSize(PrimGetUint32At(rbuf, lengthOffset))]
            /\ UNCHANGED results
    /\ UNCHANGED <<mConnectionFD, mListeningSocketFD, openFds, pending,
                   stream, peerClosed, wire, rbuf>>
    /\ UNCHANGED <<mem, encVars, decVars, fnVars, poolVars>>

\* write(2) takes k of the messageLength - bytesWritten bytes that stand
\* at rawBuffer + bytesWritten; when bytesWritten reaches messageLength
\* the call returns it
WriteChunk(k) ==
    /\ rd.pc = "write"
    /\ k <= rd.messageLength - rd.bytesWritten
    /\ LET w == [rd EXCEPT !.bytesWritten = rd.bytesWritten + k,
                           !.log = rd.log \cup {"data"}]
       IN /\ stream' = stream \o [i \in 1..k |-> rbuf[rd.bytesWritten + i - 1]]
          /\ IF w.bytesWritten < w.messageLength
             THEN rd' = w /\ UNCHANGED results
             ELSE IF w.bytesWritten # w.messageLength
             THEN FinishWrite(w, "throw", 0)
             ELSE FinishWrite(w, "returned", w.bytesWritten)
    /\ UNCHANGED <<mConnectionFD, mListeningSocketFD, openFds, pending,
                   peerClosed, wire, rbuf>>
    /\ UNCHANGED <<mem, encVars, decVars, fnVars, poolVars>>

\* write(2) gives -1 with EAGAIN, EWOULDBLOCK or EINTR: the call sleeps,
\* then adds rc to bytesWritten and goes round the loop
WriteTransient ==
    /\ rd.pc = "write"
    /\ rd.transients < MaxTransient
    /\ rd' = [rd EXCEPT !.bytesWritten = rd.bytesWritten - 1,
                        !.transients = rd.transients + 1,
                        !.log = rd.log \cup {"transient"}]
    /\ UNCHANGED <<mConnectionFD, mListeningSocketFD, openFds, pending,
                   stream, peerClosed, wire, rbuf, results>>
    /\ UNCHANGED <<mem, encVars, decVars, fnVars, poolVars>>

\* a write(2) giving 0 that ends the call and leaves the connection open
WriteEndResult_ZeroStaysOpen(why) ==
    IF why = "zero" THEN [kind |-> "returned", closes |-> FALSE]
    ELSE [kind |-> "throw", closes |-> TRUE]

\* what writeMessage does when write(2) gives 0, or -1 with another errno
WriteEndResult(why) ==
    IF why = "zero" THEN [kind |-> "returned", closes |-> TRUE]
    ELSE [kind |-> "throw", closes |-> TRUE]

\* write(2) gives 0, or -1 with an errno that is not transient; EFAULT is
\* what it gives for an address outside the process's memory, as
\* rawBuffer + bytesWritten may be when bytesWritten < 0
WriteEnd(why) ==
    /\ rd.pc = "write"
    /\ why = "efault" => rd.bytesWritten < 0
    /\ IF WriteEndResult(why).closes
       THEN CloseConnectionFds
       ELSE UNCHANGED <<mConnectionFD, mListeningSocketFD, openFds, pending,
                        stream>>
    /\ FinishWrite([rd EXCEPT !.log = rd.log \cup {why}],
                   WriteEndResult(why).kind, 0)
    /\ UNCHANGED <<peerClosed, wire, rbuf>>
    /\ UNCHANGED <<mem, encVars, decVars, fnVars, poolVars>>

WriteEnds == {"zero", "error", "efault"}

NextWrite ==
    \/ WriteMessage
    \/ \E k \in 1..(IoBufSize + MaxTransient) : WriteChunk(k)
    \/ WriteTransient
    \/ \E why \in WriteEnds : WriteEnd(why)

SpecWrite == InitWrite /\ [][NextWrite]_vars

\* C24: whatever partial writes the socket splits a finalized frame of
\* declared length L into, with EINTR / EAGAIN / EWOULDBLOCK results
\* anywhere between them, writeMessage gives the socket exactly the L
\* bytes of the frame, in order and each once, and then returns L with
\* the connection open.
C24_WriteWholeFrame ==
    (/\ rd.pc = "done" /\ Len(results) = 1
     /\ results[1].log \subseteq {"data", "transient"}) =>
        /\ results[1].kind = "returned"
        /\ results[1].value = Len(wire[1])
        /\ stream = wire[1]
        /\ mConnectionFD # -1

\* C25: a write(2) that fails with an errno other than EINTR / EAGAIN /
\* EWOULDBLOCK makes writeMessage close the connection and throw; a
\* write(2) that gives 0 makes it close the connection and return 0; the
\* connection is closed afterwards in both cases.
C25_WriteErrors ==
    (rd.pc = "done" /\ Len(results) = 1) =>
        /\ results[1].log \cap {"error", "efault"} # {} =>
              /\ results[1].kind = "throw"
              /\ mConnectionFD = -1
        /\ "zero" \in results[1].log =>
              /\ results[1].kind = "returned"
              /\ results[1].value = 0
              /\ mConnectionFD = -1

C25_Witness ==
    /\ rd.pc = "done" /\ Len(results) = 1
    /\ results[1].log = {"data", "zero"}
    /\ results[1].bytesWritten = 10
    /\ results[1].kind = "returned" /\ results[1].value = 0
    /\ mConnectionFD = -1 /\ openFds = {}

\* C26: openSocket first closes the descriptors the endpoint holds; when
\* connect(2) fails with ECONNREFUSED, EINTR or ETIMEDOUT it returns
\* false, when connect(2) fails with another errno it throws, and either
\* way no descriptor is held and the new socket is closed; when connect(2)
\* succeeds it returns true, the new socket is the connection and no
\* listening socket is held.
C26_OpenSocket ==
    (ret.fn = "openSocket" /\ ret.outcome # "socket") =>
        /\ \A fd \in ret.held :
              fd \in openFds => fd = ret.sockfd /\ fd = mConnectionFD
        /\ mListeningSocketFD = -1
        /\ ret.outcome \in ConnectRecoverable =>
              ret.how = "returned" /\ ~ret.result
        /\ ret.outcome \notin ConnectRecoverable \cup {"ok"} =>
              ret.how = "threw"
        /\ ret.outcome # "ok" =>
              mConnectionFD = -1 /\ ret.sockfd \notin openFds
        /\ ret.outcome = "ok" =>
              /\ ret.how = "returned" /\ ret.result
              /\ mConnectionFD = ret.sockfd /\ mConnectionFD \in openFds

C26_Witness ==
    /\ ret.fn = "openSocket" /\ ret.outcome = "ETIMEDOUT"
    /\ ret.held = {3, 4} /\ ret.sockfd = 3
    /\ ret.how = "returned" /\ ~ret.result
    /\ mConnectionFD = -1 /\ mListeningSocketFD = -1 /\ openFds = {}

\* ---------------------------------------------------------------------
\* The endpoint under every call of IO: the calls of the endpoint
\* specification, and readMessage and writeMessage as whole calls
\* ---------------------------------------------------------------------

\* how a readMessage call ends: a view on a frame is returned; read(2)
\* gives 0 or ECONNABORTED / ECONNRESET; read(2) fails otherwise or the
\* frame does not fit the buffer
ReadCallEnds == {"view", "eof", "error"}

\* IO::readMessage from its call to its return or throw
ReadMessageCall(end) ==
    /\ call' = [fn |-> "readMessage"]
    /\ IF mConnectionFD = -1
       THEN /\ ret' = [fn |-> "readMessage", how |-> "threw"]
            /\ UNCHANGED <<mConnectionFD, mListeningSocketFD, openFds,
                           pending, stream>>
       ELSE IF end = "view"
       THEN /\ Len(stream) >= Len(SecondFrame)
            /\ stream' = SubSeq(stream, Len(SecondFrame) + 1, Len(stream))
            /\ ret' = [fn |-> "readMessage", how |-> "returned"]
            /\ UNCHANGED <<mConnectionFD, mListeningSocketFD, openFds,
                           pending>>
       ELSE /\ end = "eof" => Len(stream) < Len(SecondFrame) /\ peerClosed
            /\ CloseConnectionFds
            /\ ret' = [fn |-> "readMessage",
                       how |-> IF end = "eof" THEN "returned" ELSE "threw"]
    /\ UNCHANGED peerClosed
    /\ EndpointFrame

\* how a writeMessage call ends: the frame is written; write(2) gives 0;
\* write(2) fails
WriteCallEnds == {"written", "zero", "error"}

\* IO::writeMessage from its call to its return or throw
WriteMessageCall(end) ==
    /\ call' = [fn |-> "writeMessage"]
    /\ IF mConnectionFD = -1
       THEN /\ ret' = [fn |-> "writeMessage", how |-> "threw"]
            /\ UNCHANGED <<mConnectionFD, mListeningSocketFD, openFds,
                           pending, stream>>
       ELSE IF end = "written"
       THEN /\ ret' = [fn |-> "writeMessage", how |-> "returned"]
            /\ UNCHANGED <<mConnectionFD, mListeningSocketFD, openFds,
                           pending, stream>>
       ELSE /\ CloseConnectionFds
            /\ ret' = [fn |-> "writeMessage",
                       how |-> IF end = "zero" THEN "returned" ELSE "threw"]
    /\ UNCHANGED peerClosed
    /\ EndpointFrame

NextMachine ==
    \/ CloseConnection
    \/ \E o \in {"ok", "socket", "bind", "listen"} : OpenListeningSocket(o)
    \/ \E o \in ConnectOutcomes : OpenSocket(o)
    \/ \E f \in BOOLEAN, d \in {<<>>, SecondFrame} :
           AcceptConnectionIfNeeded(f, d)
    \/ \E sf \in BOOLEAN, af \in BOOLEAN, d \in {<<>>, SecondFrame} :
           IsDataAvailable(sf, af, d)
    \/ \E end \in ReadCallEnds : ReadMessageCall(end)
    \/ \E end \in WriteCallEnds : WriteMessageCall(end)
    \/ PeerConnects
    \/ PeerSends
    \/ PeerCloses

SpecMachine == InitEndpoint /\ [][NextMachine]_vars

\* the descriptors of the endpoint are open ones, and two when both are
\* held
HeldAreOpen ==
    /\ mConnectionFD # -1 => mConnectionFD \in openFds
    /\ mListeningSocketFD # -1 => mListeningSocketFD \in openFds
    /\ mConnectionFD # -1 => mConnectionFD # mListeningSocketFD

\* no call puts another descriptor in the place of one the endpoint holds
\* and leaves the old one open
NeverReplacedOpen ==
    /\ (mConnectionFD # -1 /\ mConnectionFD' \notin {-1, mConnectionFD})
           => mConnectionFD \notin openFds'
    /\ (mListeningSocketFD # -1
        /\ mListeningSocketFD' \notin {-1, mListeningSocketFD})
           => mListeningSocketFD \notin openFds'

\* acceptConnectionIfNeeded accepts with a listening socket and no
\* connection, and changes nothing otherwise
AcceptsOnlyWhenNeeded ==
    (\E f \in BOOLEAN, d \in {<<>>, SecondFrame} :
         AcceptConnectionIfNeeded(f, d)) =>
        IF mListeningSocketFD # -1 /\ mConnectionFD = -1
        THEN mConnectionFD' = -1 \/ mConnectionFD' \in openFds' \ openFds
        ELSE UNCHANGED <<mConnectionFD, mListeningSocketFD, openFds, pending,
                         stream>>

\* closeConnection closes both descriptors, and changes none when none is
\* held
CloseReleasesBoth ==
    CloseConnection =>
        /\ mConnectionFD' = -1 /\ mListeningSocketFD' = -1
        /\ openFds' = openFds \ {mConnectionFD, mListeningSocketFD}
        /\ (mConnectionFD = -1 /\ mListeningSocketFD = -1) =>
               UNCHANGED <<mConnectionFD, mListeningSocketFD, openFds>>

\* C27: under any sequence of openListeningSocket,
\* acceptConnectionIfNeeded, openSocket, closeConnection, isDataAvailable,
\* readMessage and writeMessage calls the endpoint holds at most one
\* connection descriptor and at most one listening descriptor (a held
\* descriptor is never replaced while open); acceptConnectionIfNeeded
\* accepts only with a listening descriptor held and no connection open
\* and changes nothing otherwise; closeConnection releases both
\* descriptors, and a second call changes nothing.
C27_EndpointMachine ==
    /\ []HeldAreOpen
    /\ [][NeverReplacedOpen /\ AcceptsOnlyWhenNeeded /\ CloseReleasesBoth]_vars

C27_Witness ==
    /\ ret.fn = "acceptConnectionIfNeeded" /\ ret.how = "returned"
    /\ mListeningSocketFD = 3 /\ mConnectionFD = 4 /\ openFds = {3, 4}
    /\ pending = 1

\* ---------------------------------------------------------------------
\* TLVKeyValueStringPairs::decode over views of any bytes
\* ---------------------------------------------------------------------

\* the longest view decoded
MaxPairBytes == 5

\* the bytes a view is made of: NUL, 'k', 'v'
PairBytes == {0, 107, 118}

\* where the view starts in the buffer
PairsBase == 24

RECURSIVE ByteStrings(_)
ByteStrings(n) ==
    IF n = 0 THEN {<<>>}
    ELSE {Append(s, b) : s \in ByteStrings(n - 1), b \in PairBytes}

\* the view [PairsBase, PairsBase + n) holds any bytes, and the buffer
\* around it zeros or 255s
InitPairs ==
    /\ \E f \in Fills, n \in 0..MaxPairBytes :
          \E s \in ByteStrings(n) :
              /\ mem = CopyBytes(Filled(f), PairsBase, s)
              /\ call = [fn |-> "decode", size |-> n]
    /\ ret = [fn |-> "none"]
    /\ EncIdle /\ DecIdle /\ IoIdle /\ PoolIdle

\* tlv.decode(view) on a new TLVKeyValueStringPairs
DecodeView ==
    /\ ret.fn = "none"
    /\ LET v == View(PairsBase, call.size)
           d == Decode(FreshTLV(TLV_KEY_VALUE_STRING_PAIRS), mem, v)
       IN ret' = [fn |-> "decode", ok |-> d.ok, len |-> d.len,
                  value |-> d.tlv.value, bytes |-> ViewBytes(mem, v)]
    /\ UNCHANGED <<mem, call, encVars, decVars, ioVars, poolVars>>

NextPairs == DecodeView

SpecPairs == InitPairs /\ [][NextPairs]_vars

\* the strings of the pairs, each with its NUL, one after the other
RECURSIVE Joined(_)
Joined(pairs) ==
    IF pairs = <<>> THEN <<>>
    ELSE pairs[1][1] \o <<0>> \o pairs[1][2] \o <<0>> \o Joined(Tail(pairs))

\* bytes is a concatenation of an even number of NUL-terminated strings
EvenStrings(bytes) ==
    /\ bytes # <<>> => bytes[Len(bytes)] = 0
    /\ Cardinality({i \in 1..Len(bytes) : bytes[i] = 0}) % 2 = 0

\* C28: TLVKeyValueStringPairs::decode fails for every view that is not a
\* concatenation of an even number of NUL-terminated strings (no final
\* NUL, a key with no value after it, bytes after the last whole pair);
\* for the others it returns the size of the view and the pairs are the
\* strings in order.
C28_PairsDecode ==
    ret.fn = "decode" =>
        /\ ret.ok <=> EvenStrings(ret.bytes)
        /\ ret.ok =>
              /\ ret.len = Len(ret.bytes)
              /\ Joined(ret.value) = ret.bytes
              /\ \A i \in 1..Len(ret.value) :
                     NulFree(ret.value[i][1]) /\ NulFree(ret.value[i][2])

C28_Witness ==
    /\ ret.fn = "decode" /\ ~ret.ok
    /\ ret.bytes = <<107, 0, 118, 0, 107>>
    /\ mem[PairsBase + 5] = 0

\* ---------------------------------------------------------------------
\* IPv4Address::IPv4Address(const std::string &): trim, then
\* parseIPv4Address; a text is the sequence of its character codes
\* ---------------------------------------------------------------------
maxPartIdx == 3

maxDigits == 3

\* std::isspace and std::isdigit in the "C" locale
IsSpace(c) == c = 32 \/ (c >= 9 /\ c <= 13)

IsDigit(c) == c >= 48 /\ c <= 57

\* trim: the text between its first and its last character that is not
\* white space
Trim(str) ==
    LET solid == {i \in 1..Len(str) : ~IsSpace(str[i])}
    IN IF solid = {} THEN <<>>
       ELSE LET a == CHOOSE i \in solid : \A j \in solid : i <= j
                b == CHOOSE i \in solid : \A j \in solid : i >= j
            IN SubSeq(str, a, b)

\* the locals of parseIPv4Address before its loop; it is the index of the
\* character the iterator is at
ParseStart ==
    [it |-> 1, parts |-> [i \in 0..maxPartIdx |-> 0], partDigitCount |-> 0,
     partIdx |-> 0, status |-> "PART_BEGIN", thereWereErrors |-> FALSE]

\* the loop of parseIPv4Address from the state s on: the state it ends in
RECURSIVE ParseLoop(_, _)
ParseLoop(t, s) ==
    IF s.thereWereErrors \/ s.it > Len(t) THEN s
    ELSE IF s.status = "PART_BEGIN"
    THEN IF s.partIdx > maxPartIdx
         THEN [s EXCEPT !.thereWereErrors = TRUE]
         ELSE IF IsDigit(t[s.it])
         THEN ParseLoop(t, [s EXCEPT !.partDigitCount = 0,
                                     !.parts[s.partIdx] = 0,
                                     !.status = "PART"])
         ELSE [s EXCEPT !.thereWereErrors = TRUE]
    ELSE LET s1 == [s EXCEPT !.partDigitCount = s.partDigitCount + 1]
         IN IF s1.partDigitCount > maxDigits
            THEN [s1 EXCEPT !.thereWereErrors = TRUE]
            ELSE LET s2 == [s1 EXCEPT !.parts[s.partIdx] =
                                 (s.parts[s.partIdx] * 10) + (t[s.it] - 48)]
                 IN IF s2.parts[s.partIdx] > 255
                    THEN [s2 EXCEPT !.thereWereErrors = TRUE]
                    ELSE LET s3 == [s2 EXCEPT !.it = s.it + 1]
                         IN IF s3.it > Len(t) THEN s3
                            ELSE IF IsDigit(t[s3.it]) THEN ParseLoop(t, s3)
                            ELSE IF t[s3.it] = 46 /\ s3.partDigitCount > 0
                            THEN ParseLoop(t, [s3 EXCEPT
                                                 !.partIdx = s.partIdx + 1,
                                                 !.status = "PART_BEGIN",
                                                 !.it = s3.it + 1])
                            ELSE [s3 EXCEPT !.thereWereErrors = TRUE]

\* parseIPv4Address: [ok, parts]; when ok is FALSE it threw
ParseIPv4Address(t) ==
    LET s == ParseLoop(t, ParseStart)
        bad == \/ s.thereWereErrors
               \/ s.partIdx # maxPartIdx
               \/ s.partDigitCount = 0
    IN [ok |-> ~bad, parts |-> s.parts]

\* the parts a text is made of at most
MaxTextParts == 5

\* what stands between the dots: nothing, "0", "255", "256", "0255", "1 1"
PartTexts ==
    {<<>>, <<48>>, <<50, 53, 53>>, <<50, 53, 54>>, <<48, 50, 53, 53>>,
     <<49, 32, 49>>}

\* the white space before and after
Pads == {<<>>, <<9, 32>>}

RECURSIVE DottedTexts(_)
DottedTexts(n) ==
    IF n = 1 THEN PartTexts
    ELSE {s \o <<46>> \o p : s \in DottedTexts(n - 1), p \in PartTexts}

InitParse ==
    /\ \E n \in 1..MaxTextParts :
          \E s \in DottedTexts(n), l \in Pads, r \in Pads :
              call = [fn |-> "IPv4Address", str |-> l \o s \o r]
    /\ ret = [fn |-> "none"]
    /\ mem = Filled(0)
    /\ EncIdle /\ DecIdle /\ IoIdle /\ PoolIdle

\* IPv4Address(str)
NewIPv4Address ==
    /\ ret.fn = "none"
    /\ LET r == ParseIPv4Address(Trim(call.str))
       IN ret' = [fn |-> "IPv4Address", ok |-> r.ok, parts |-> r.parts,
                  str |-> call.str]
    /\ UNCHANGED <<mem, call, encVars, decVars, ioVars, poolVars>>

NextParse == NewIPv4Address

SpecParse == InitParse /\ [][NextParse]_vars

\* str without the white space at its ends
RECURSIVE Stripped(_)
Stripped(str) ==
    IF str = <<>> THEN str
    ELSE IF IsSpace(str[1]) THEN Stripped(Tail(str))
    ELSE IF IsSpace(str[Len(str)]) THEN Stripped(SubSeq(str, 1, Len(str) - 1))
    ELSE str

\* the parts of a text: what stands before, between and after its dots
RECURSIVE SplitAtDots(_, _)
SplitAtDots(str, part) ==
    IF str = <<>> THEN <<part>>
    ELSE IF str[1] = 46 THEN <<part>> \o SplitAtDots(Tail(str), <<>>)
    ELSE SplitAtDots(Tail(str), Append(part, str[1]))

RECURSIVE DecimalValue(_, _)
DecimalValue(digits, acc) ==
    IF digits = <<>> THEN acc
    ELSE DecimalValue(Tail(digits), acc * 10 + (digits[1] - 48))

\* four parts, each of one to three digits and at most 255
DottedQuad(str) ==
    LET ps == SplitAtDots(Stripped(str), <<>>)
    IN /\ Len(ps) = 4
       /\ \A i \in 1..4 :
             /\ Len(ps[i]) \in 1..3
             /\ \A k \in 1..Len(ps[i]) : IsDigit(ps[i][k])
             /\ DecimalValue(ps[i], 0) <= 255

\* C29: IPv4Address(str) accepts exactly the texts that, without the
\* white space at their ends, are four parts of one to three decimal
\* digits and value at most 255 with single dots between them; it throws
\* for every other text: an empty part anywhere (a dot at the end after
\* three parts too), more than 3 digits in a part, a part above 255, a
\* wrong number of parts.
C29_IPv4Text ==
    ret.fn = "IPv4Address" => (ret.ok <=> DottedQuad(ret.str))

\* ---------------------------------------------------------------------
\* Views derived from views: getSub(offset, len), getSub(offset) and
\* shrinkTo(newSize), with arguments of the whole range of std::size_t
\* ---------------------------------------------------------------------

\* size of the first view
DeriveSize == 3

\* views held at most
MaxDerived == 2

\* the arguments: 0 .. DeriveSize + 1, and the two largest std::size_t
\* values (SIZE_MAX - 1 and SIZE_MAX, kept as -2 and -1)
DeriveArgs == (0..(DeriveSize + 1)) \cup {-2, -1}

InitDerive ==
    /\ mem = Filled(0)
    /\ mPool = 0 /\ mFree = <<>>
    /\ views = <<[base |-> 0, size |-> DeriveSize]>>
    /\ call = [fn |-> "derive"]
    /\ ret = [fn |-> "none"]
    /\ EncIdle /\ DecIdle /\ IoIdle

\* BufferView::getSub(offset, len), BufferWritableView::getSub(offset,
\* len): [ok, view]
GetSub2(v, offset, len) ==
    IF OutOfBounds(v, offset, len) THEN [ok |-> FALSE, view |-> v]
    ELSE [ok |-> TRUE, view |-> View(v.base + offset, len)]

\* BufferView::getSub(offset), BufferWritableView::getSub(offset)
GetSub1(v, offset) ==
    IF UGt(offset, v.size) THEN [ok |-> FALSE, view |-> v]
    ELSE [ok |-> TRUE, view |-> View(v.base + offset, v.size - offset)]

\* BufferView::shrinkTo(newSize): [ok, view], view being the view after
ShrinkTo(v, newSize) ==
    IF UGt(newSize, v.size) THEN [ok |-> FALSE, view |-> v]
    ELSE [ok |-> TRUE, view |-> View(v.base, newSize)]

\* auto sub = views[i].getSub(offset, len)
DeriveGetSub2(i, offset, len) ==
    /\ call.fn = "derive" /\ i \in DOMAIN views
    /\ LET r == GetSub2(views[i], offset, len)
       IN /\ r.ok => Len(views) < MaxDerived
          /\ views' = IF r.ok THEN Append(views, r.view) ELSE views
          /\ ret' = [fn |-> "getSub2", ok |-> r.ok, parent |-> views[i],
                     offset |-> offset, len |-> len, view |-> r.view]
    /\ UNCHANGED <<mem, mPool, mFree, call, encVars, decVars, ioVars>>

\* auto sub = views[i].getSub(offset)
DeriveGetSub1(i, offset) ==
    /\ call.fn = "derive" /\ i \in DOMAIN views
    /\ LET r == GetSub1(views[i], offset)
       IN /\ r.ok => Len(views) < MaxDerived
          /\ views' = IF r.ok THEN Append(views, r.view) ELSE views
          /\ ret' = [fn |-> "getSub1", ok |-> r.ok, parent |-> views[i],
                     offset |-> offset, len |-> 0, view |-> r.view]
    /\ UNCHANGED <<mem, mPool, mFree, call, encVars, decVars, ioVars>>

\* views[i].shrinkTo(newSize)
DeriveShrinkTo(i, newSize) ==
    /\ call.fn = "derive" /\ i \in DOMAIN views
    /\ LET r == ShrinkTo(views[i], newSize)
       IN /\ views' = [views EXCEPT ![i] = r.view]
          /\ ret' = [fn |-> "shrinkTo", ok |-> r.ok, parent |-> views[i],
                     offset |-> 0, len |-> newSize, view |-> r.view]
    /\ UNCHANGED <<mem, mPool, mFree, call, encVars, decVars, ioVars>>

NextDerive ==
    \/ \E i \in 1..MaxDerived, offset \in DeriveArgs, len \in DeriveArgs :
           DeriveGetSub2(i, offset, len)
    \/ \E i \in 1..MaxDerived, offset \in DeriveArgs : DeriveGetSub1(i, offset)
    \/ \E i \in 1..MaxDerived, n \in DeriveArgs : DeriveShrinkTo(i, n)

SpecDerive == InitDerive /\ [][NextDerive]_vars

\* the bytes of view a are bytes of view b
Within(a, b) ==
    /\ a.size >= 0 /\ b.size >= 0
    /\ a.base >= b.base /\ a.base + a.size <= b.base + b.size

\* offset + len is more than size, as numbers: an argument kept as a
\* negative integer is above every size a view inside the buffer has
SumExceeds(offset, len, size) ==
    offset < 0 \/ len < 0 \/ offset + len > size

\* C30: getSub(offset, len) fails if offset + len > size and otherwise
\* gives the view of len bytes from offset; getSub(offset) fails if
\* offset > size and otherwise gives the rest of the view from offset;
\* shrinkTo(n) fails, leaving the size as it was, if n > size and
\* otherwise sets the size to n and leaves the start; so every view these
\* give lies within the view it was made from.
C30_DerivedWithin ==
    (ret.fn \in {"getSub2", "getSub1", "shrinkTo"} /\ ret.parent.size >= 0) =>
        /\ ret.fn = "getSub2" =>
              /\ ret.ok <=> ~SumExceeds(ret.offset, ret.len, ret.parent.size)
              /\ ret.ok => ret.view = View(ret.parent.base + ret.offset,
                                           ret.len)
        /\ ret.fn = "getSub1" =>
              /\ ret.ok <=> ~SumExceeds(ret.offset, 0, ret.parent.size)
              /\ ret.ok => ret.view = View(ret.parent.base + ret.offset,
                                           ret.parent.size - ret.offset)
        /\ ret.fn = "shrinkTo" =>
              /\ ret.ok <=> ~SumExceeds(0, ret.len, ret.parent.size)
              /\ ret.view = View(ret.parent.base,
                                 IF ret.ok THEN ret.len ELSE ret.parent.size)
        /\ Within(ret.view, ret.parent)

\* ---------------------------------------------------------------------
\* CommonHeaderEncoder::messageClass with every enumerator of
\* MessageClass, INVALID included
\* ---------------------------------------------------------------------

\* a messageClass that marks the header as a response before it throws
MessageClassSetter_WritesThenThrows(m, hv, mc) ==
    IF mc = "INVALID"
    THEN [threw |-> TRUE,
          mem |-> [m EXCEPT ![hv.base + flagsOffset] =
                      (m[hv.base + flagsOffset] % 128) + 128]]
    ELSE [threw |-> FALSE, mem |-> EncMessageClass(m, hv, mc)]

\* CommonHeaderEncoder::messageClass: [threw, mem]; the case INVALID of
\* the switch throws std::invalid_argument before anything is written
MessageClassSetter(m, hv, mc) ==
    IF mc = "INVALID" THEN [threw |-> TRUE, mem |-> m]
    ELSE [threw |-> FALSE, mem |-> EncMessageClass(m, hv, mc)]

\* header().messageClass(mc), mc any enumerator; ret tells whether the
\* call threw and whether the buffer is as it was
ClassAnyMessageClass(mc) ==
    /\ call.fn = "class"
    /\ LET r == MessageClassSetter(mem, Buffer, mc)
       IN /\ mem' = r.mem
          /\ hdr' = IF r.threw THEN hdr ELSE [hdr EXCEPT !.mc = mc]
          /\ ret' = [fn |-> "messageClass", arg |-> mc, threw |-> r.threw,
                     same |-> r.mem = mem]
    /\ UNCHANGED <<call, encPhase, encOffset, added, decVars, ioVars,
                   poolVars>>

NextInvalid ==
    \E mc \in MessageClass \cup {"INVALID"} : ClassAnyMessageClass(mc)

SpecInvalid == InitClass /\ [][NextInvalid]_vars

\* C31: messageClass(MessageClass::INVALID) throws std::invalid_argument
\* and leaves the flags byte, ts_rc and every other byte of the header as
\* they were.
C31_InvalidClass ==
    (ret.fn = "messageClass" /\ ret.arg = "INVALID") =>
        ret.threw /\ ret.same

C31_Witness ==
    /\ ret.fn = "messageClass" /\ ret.arg = "INVALID" /\ ret.threw
    /\ hdr.mc = "RESPONSE_FAILURE"
    /\ mem[flagsOffset] >= 128
    /\ PrimGetUint16At(mem, tsrcOffset) \div 16384 = 2

\* ---------------------------------------------------------------------
\* IO::readMessage on preambles that declare any length: less than the
\* preamble, more than the buffer
\* ---------------------------------------------------------------------

\* the lengths the peer declares in a preamble that no frame follows
ShortLengths == {0, 4, PreambleSize, IoBufSize + 8}

\* the eight bytes of a preamble
Preamble(version, length) ==
    [i \in 1..PreambleSize |->
        CASE i = versionOffset + 1 -> version
          [] i = lengthOffset + 4 -> length
          [] OTHER -> 0]

\* the length the i-th thing sent declares
DeclaredOf(i) == wire[i][lengthOffset + 4]

\* the peer has sent a preamble or a frame, and two frames after it
InitShort ==
    /\ mConnectionFD = 3 /\ mListeningSocketFD = -1 /\ openFds = {3}
    /\ pending = 0 /\ peerClosed = FALSE
    /\ \E a \in {Preamble(v, l) : v \in {1, 2}, l \in ShortLengths}
                \cup {WireFrame(2, totalLength, 16)} :
          /\ wire = <<a, SecondFrame, SecondFrame>>
          /\ stream = a \o SecondFrame \o SecondFrame
    /\ rd = NoRead
    /\ rbuf = [i \in (0 - MaxTransient)..(IoBufSize - 1) |-> 0]
    /\ results = <<>>
    /\ mem = Filled(0)
    /\ EncIdle /\ DecIdle /\ FnIdle /\ PoolIdle

\* the body loop entered with messageLength < bytesRead: the count given
\* to read(2) is messageLength - bytesRead as a std::size_t, so read(2)
\* gives what the stream holds, k bytes, and stores them from
\* rawBuffer + bytesRead on, past the end of the buffer if they are that
\* many; the loop ends, and the call returns the empty view for a version
\* that is not 2 and throws for bytesRead # messageLength otherwise
BodyReadWrapped(k) ==
    /\ rd.pc = "body"
    /\ rd.messageLength - rd.bytesRead < 0
    /\ k <= Len(stream)
    /\ LET r == [rd EXCEPT
                   !.bytesRead = rd.bytesRead + k,
                   !.consumed = rd.consumed + k,
                   !.log = rd.log \cup {"data"}
                           \cup IF rd.bytesRead + k > IoBufSize
                                THEN {"beyond"} ELSE {}]
       IN /\ rbuf' = CopyBytes(rbuf, rd.bytesRead, SubSeq(stream, 1, k))
          /\ IF r.version # 2
             THEN Finish(r, "empty", <<>>, TRUE)
             ELSE Finish(r, "throw", <<>>, TRUE)
    /\ stream' = SubSeq(stream, k + 1, Len(stream))
    /\ UNCHANGED <<mConnectionFD, mListeningSocketFD, openFds, pending,
                   peerClosed, wire>>
    /\ UNCHANGED <<mem, encVars, decVars, fnVars, poolVars>>

\* read(2) gives data, or the end of file, or fails for good
NextShort ==
    \/ ReadMessage
    \/ \E k \in 1..PreambleSize : PreambleRead(k)
    \/ \E k \in 1..IoBufSize : BodyRead(k)
    \/ BodyReadNothing
    \/ \E k \in 1..(2 * IoBufSize) : BodyReadWrapped(k)
    \/ \E loop \in {"preamble", "body"} : ReadEnd(loop, "eof")
    \/ PeerCloses

SpecShort == InitShort /\ [][NextShort]_vars

\* C32: whatever length L the preamble declares, readMessage stores no
\* byte at an index >= readBuffer.size(), takes no more than max(L, 8)
\* bytes from the stream, and leaves the stream at the start of the next
\* frame, not inside or beyond it.
C32_ReadStaysInside ==
    Len(results) >= 1 =>
        /\ "beyond" \notin results[1].log
        /\ results[1].consumed <= Max(DeclaredOf(1), PreambleSize)
        /\ results[1].open =>
              results[1].consumed <= Len(wire[1])

\* ---------------------------------------------------------------------
\* IO::writeMessage on views of any size holding any length field
\* ---------------------------------------------------------------------

\* the byte that stands wherever the view is not: before rawBuffer, and
\* from the end of the view on (but for the length field, when the view
\* ends before it)
Outside == 255

\* the sizes of the views handed to writeMessage
WriteViewSizes == {4, totalLength, totalLength + 4}

\* the values of the length field; 0 is what setDefaults leaves until
\* end() is called
WriteLengths == {0, totalLength, totalLength + 4}

InitWriteAny ==
    /\ mConnectionFD = 3 /\ mListeningSocketFD = -1 /\ openFds = {3}
    /\ pending = 0 /\ peerClosed = FALSE
    /\ stream = <<>> /\ wire = <<>>
    /\ \E size \in WriteViewSizes, length \in WriteLengths :
          /\ call = [fn |-> "writeMessage", size |-> size]
          /\ rbuf = [i \in (0 - MaxTransient)..(IoBufSize - 1) |->
                        IF i < 0 THEN Outside
                        ELSE IF i < PreambleSize
                        THEN Preamble(2, length)[i + 1]
                        ELSE IF i < size THEN 16 + i ELSE Outside]
    /\ ret = [fn |-> "none"]
    /\ rd = NoWrite
    /\ results = <<>>
    /\ mem = Filled(0)
    /\ EncIdle /\ DecIdle /\ PoolIdle

SpecWriteAny == InitWriteAny /\ [][NextWrite]_vars

\* C33: whatever the size of the view and the value of its length field
\* (more than the size of the view, 0, a view shorter than 8 bytes), every
\* byte writeMessage gives the socket is a byte of the view, and a length
\* field of 0 does not make it close the connection.
C33_WriteStaysInside ==
    /\ \A i \in 1..Len(stream) : stream[i] # Outside
    /\ (/\ rd.pc = "done" /\ rd.messageLength = 0
        /\ results[1].log \cap {"error", "efault"} = {}) =>
           mConnectionFD # -1

\* ---------------------------------------------------------------------
\* MessageDecoder::get: the value view handed to decode()
\* ---------------------------------------------------------------------

\* the gets that came to call obj.decode(subBuffer_V)
DecodeCalled == ret.err \in {"ok", "Malformed", "DecodeError", "Fault"}

\* C34: for every type and every declared total length (0..3 and lengths
\* that reach past the end of the view included), a get succeeds or fails
\* with the cursor where it was, decode() is only ever handed a value view
\* that lies inside the view of the decoder, and a declared total length
\* below 4 is rejected.
C34_GetValueView ==
    ret.fn = "get" =>
        /\ ret.err # "ok" => decOffset = ret.before
        /\ DecodeCalled =>
               /\ ret.declared >= headerLength
               /\ ret.before + ret.declared <= decSize
        /\ (ret.stored = ret.type /\ ret.declared < headerLength) =>
               ret.err \in {"OutOfRange", "Malformed", "DecodeError"}

\* ---------------------------------------------------------------------
\* CommonHeaderDecoder::data() on headers holding any length
\* ---------------------------------------------------------------------

\* the length fields received, as <<high 16 bits, low 16 bits>>
DataLengths ==
    {<<hi, lo>> : hi \in {0, 1, 65535},
                  lo \in {0, 8, totalLength - 1, totalLength,
                          totalLength + 1, DecoderMinSize,
                          DecoderMinSize + 4, DecoderMinSize + 5, 65535}}

\* the sizes of the views the decoder is constructed over
DataSizes == {DecoderMinSize, DecoderMinSize + 4, DecoderMinSize + 12}

\* CommonHeaderDecoder::data: [ok, view]. totalLengthBytes() is a
\* std::size_t, so the length handed to getSub is the difference modulo
\* the width of std::size_t: below 24 it wraps. A length field of 65536
\* or more is more than every view here holds, and its difference does
\* not wrap: getSub raises.
CommonHeaderDecoderData(m, hv) ==
    LET l == PrimGetUint32At(m, hv.base + lengthOffset)
    IN IF l[1] > 0 THEN [ok |-> FALSE, view |-> hv]
       ELSE GetSub2(hv, totalLength, l[2] - totalLength)

InitData ==
    /\ \E l \in DataLengths :
          mem = PrimSetUint32At([Filled(0) EXCEPT ![versionOffset] = 2],
                                lengthOffset, l)
    /\ EncIdle /\ DecIdle /\ FnIdle /\ IoIdle /\ PoolIdle

\* commonHeaderDecoder.data()
Data ==
    /\ decPhase = "open"
    /\ ret.fn = "none"
    /\ LET r == CommonHeaderDecoderData(mem, View(0, decSize))
       IN ret' = [fn |-> "data", ok |-> r.ok, view |-> r.view,
                  length |-> PrimGetUint32At(mem, lengthOffset)]
    /\ UNCHANGED <<mem, call, encVars, decVars, ioVars, poolVars>>

NextData ==
    \/ \E size \in DataSizes :
          decPhase = "none" /\ ConstructDecoder("CommonHeaderDecoder", size)
    \/ Data

SpecData == InitData /\ [][NextData]_vars

\* C35: for every value of the 32-bit length field (below 24 and above
\* the size of the view included), data() fails or returns a view that
\* starts at byte 24 and lies inside the view of the decoder.
C35_DataInside ==
    (ret.fn = "data" /\ ret.ok) =>
        /\ ret.view.base = totalLength
        /\ ret.view.size >= 0
        /\ ret.view.base + ret.view.size <= decSize

\* ---------------------------------------------------------------------
\* MessageEncoder::add over views of 65500 and 66500 bytes: the lengths
\* ---------------------------------------------------------------------

\* PacketBufferArrayBased<66500>: makeEthBuffer and PacketBufferPool
EthBufferSize == 66500

\* the sizes of the views the encoder is constructed over
WideSizes == {BufSize, messageBufferStandardSizeBytes, EthBufferSize}

\* the lengths of the encoded values (what tlv.encode returns): a
\* TLVKeyValueStringPairs holds strings of any length
WideValueLengths ==
    {0, 4, BufSize - totalLength - headerLength,
     65531, 65532, 65533, 65535,
     EthBufferSize - totalLength - headerLength - 8,
     EthBufferSize - totalLength - headerLength,
     EthBufferSize - totalLength - headerLength + 1}

\* the adds of one encoder
MaxWideAdds == 2

\* MessageEncoder::add, as far as lengths go, with a TLV whose encode
\* needs and returns n bytes: [ok, field, offset]; field is what the
\* 16-bit length field of the TLV header holds after the add
MessageEncoderAddLength(size, offset, n) ==
    IF \/ UGt(offset, size) \/ UGt(TLVdataOffset, size - offset)
       \/ n > size - offset - TLVdataOffset
       \/ OutOfBounds(View(offset, size - offset), TLVlengthOffset, 2)
    THEN [ok |-> FALSE, field |-> 0, offset |-> offset]
    ELSE LET tlvTotalLength == headerLength + n
         IN [ok |-> TRUE, field |-> tlvTotalLength % 65536,
             offset |-> offset + tlvTotalLength]

InitWide ==
    /\ \E size \in WideSizes :
          call = [fn |-> "encoder", size |-> size]
    /\ ret = NoCall
    /\ encPhase = "open" /\ encOffset = totalLength
    /\ hdr = NoHeader /\ added = <<>>
    /\ mem = Filled(0)
    /\ DecIdle /\ IoIdle /\ PoolIdle

\* messageEncoder.add(tlv), the encoded value of tlv taking n bytes
AddWide(n) ==
    /\ encPhase = "open"
    /\ Len(added) < MaxWideAdds
    /\ LET r == MessageEncoderAddLength(call.size, encOffset, n)
       IN /\ encOffset' = r.offset
          /\ added' = IF r.ok THEN Append(added, [n |-> n]) ELSE added
          /\ encPhase' = IF r.ok THEN "open" ELSE "failed"
          /\ ret' = [fn |-> "add", ok |-> r.ok, n |-> n, field |-> r.field,
                     before |-> encOffset, after |-> r.offset]
    /\ UNCHANGED <<mem, call, hdr, decVars, ioVars, poolVars>>

NextWide == \E n \in WideValueLengths : AddWide(n)

SpecWide == InitWide /\ [][NextWide]_vars

\* C36: after every add that succeeds, the 16-bit total-length field of
\* the TLV equals the advance of the cursor, 4 plus the length of the
\* value, for every length the view has room for, in views of more than
\* 65535 bytes too.
C36_LengthField ==
    (ret.fn = "add" /\ ret.ok) =>
        /\ ret.after - ret.before = headerLength + ret.n
        /\ ret.field = ret.after - ret.before

\* ---------------------------------------------------------------------
\* The frames of MessageEncoder, read by MessageDecoder
\* ---------------------------------------------------------------------

\* the decoder constructed over data() of the finished frame was refused
DecoderRefused == encPhase = "closed" /\ decPhase \notin {"none", "open"}

\* the cursor of the decoder is where the last TLV added ends
AllConsumed == ret.before = encOffset

\* C37: a MessageDecoder constructed over data() of a frame MessageEncoder
\* has finished with end() (after any number of adds that succeeded, none
\* included) is constructed without error, and its getNextTLVType gives
\* NONE exactly when every TLV added has been consumed.
C37_DecoderAcceptsFrames ==
    /\ ~DecoderRefused
    /\ (ret.fn = "getNextTLVType" /\ decPhase = "open") =>
           ((ret.type = TLV_NONE) <=> AllConsumed)

\* ---------------------------------------------------------------------
\* The descriptors of the endpoint
\* ---------------------------------------------------------------------

\* the descriptors got from socket(2) or accept(2), not closed since, that
\* neither field of the endpoint holds
Leaked == openFds \ {mConnectionFD, mListeningSocketFD}

\* C38: every descriptor socket(2) or accept(2) gave is held by the
\* endpoint or has been closed, after an openListeningSocket that failed
\* in bind or listen and an openSocket that failed in connect too; and
\* closeConnection, which is all the destructor calls, leaves none open.
C38_NoDescriptorLeak ==
    /\ Leaked = {}
    /\ call.fn = "closeConnection" => openFds = {}

\* ---------------------------------------------------------------------
\* IO::readMessage to its end: a peer that goes on sending or closes
\* ---------------------------------------------------------------------

\* the frames the peer sends: a header, a preamble alone, and a preamble
\* with a length field of 4
TerminateFrames ==
    {WireFrame(2, totalLength, 16), Preamble(2, PreambleSize),
     Preamble(2, 4) \o <<7, 7, 7, 7>>}

\* the bytes of the frame that have arrived when readMessage is called
ArrivedFirst == {0, 4, PreambleSize, totalLength}

InitTerminate ==
    /\ mConnectionFD = 3 /\ mListeningSocketFD = -1 /\ openFds = {3}
    /\ pending = 0 /\ peerClosed = FALSE
    /\ \E a \in TerminateFrames, n \in ArrivedFirst :
          /\ n <= Len(a)
          /\ wire = <<a>>
          /\ stream = SubSeq(a, 1, n)
          /\ call = [fn |-> "peer", left |-> SubSeq(a, n + 1, Len(a))]
    /\ ret = NoCall
    /\ rd = NoRead
    /\ rbuf = [i \in (0 - MaxTransient)..(IoBufSize - 1) |-> 0]
    /\ results = <<>>
    /\ mem = Filled(0)
    /\ EncIdle /\ DecIdle /\ PoolIdle

\* the next k bytes of the frame arrive
PeerTransfers(k) ==
    /\ mConnectionFD # -1
    /\ ~peerClosed
    /\ k >= 1 /\ k <= Len(call.left)
    /\ stream' = stream \o SubSeq(call.left, 1, k)
    /\ call' = [call EXCEPT !.left = SubSeq(call.left, k + 1, Len(call.left))]
    /\ UNCHANGED <<mConnectionFD, mListeningSocketFD, openFds, pending,
                   peerClosed, wire, rd, rbuf, results, ret>>
    /\ UNCHANGED <<mem, encVars, decVars, poolVars>>

\* the body loop entered with messageLength < bytesRead, at the end of
\* the stream: read(2) gives 0, the connection is closed and the empty
\* view returned
BodyReadWrappedEnd ==
    /\ rd.pc = "body"
    /\ rd.messageLength - rd.bytesRead < 0
    /\ stream = <<>> /\ peerClosed
    /\ CloseConnectionFds
    /\ Finish([rd EXCEPT !.log = rd.log \cup {"eof"}], "empty", <<>>, FALSE)
    /\ UNCHANGED <<peerClosed, wire, rbuf>>
    /\ UNCHANGED <<mem, encVars, decVars, fnVars, poolVars>>

\* what read(2) gives once it has something to give: data or end of file
ReadReturns ==
    \/ \E k \in 1..PreambleSize : PreambleRead(k)
    \/ \E k \in 1..IoBufSize : BodyRead(k)
    \/ BodyReadNothing
    \/ \E k \in 1..IoBufSize : BodyReadWrapped(k)
    \/ BodyReadWrappedEnd
    \/ \E loop \in {"preamble", "body"} : ReadEnd(loop, "eof")

\* the peer goes on with the frame, or closes
PeerActs ==
    \/ \E k \in {4, Len(call.left)} : PeerTransfers(k)
    \/ PeerCloses

NextTerminate ==
    \/ (results = <<>> /\ ReadMessage)
    \/ ReadReturns
    \/ \E loop \in {"preamble", "body"} : ReadTransient(loop)
    \/ \E loop \in {"preamble", "body"}, why \in {"reset", "error"} :
          ReadEnd(loop, why)
    \/ PeerActs

\* read(2) returns when it has data or the end of file to give; transient
\* results are at most MaxTransient in a call; the peer sends what is
\* left of the frame or closes
SpecTerminate ==
    /\ InitTerminate /\ [][NextTerminate]_vars
    /\ WF_vars(ReadReturns) /\ WF_vars(PeerActs)

\* the call has read the length field
LengthKnown == rd.pc = "body"

\* C39: under these conditions every readMessage that is called returns
\* or raises; each read(2) that transfers bytes leaves bytesRead greater
\* than it was; and bytesRead is never more than the declared length.
C39_ReadTerminates ==
    /\ (rd.pc \in {"preamble", "body"}) ~> (rd.pc = "done")
    /\ [][rd'.consumed > rd.consumed => rd'.bytesRead > rd.bytesRead]_vars
    /\ [](LengthKnown => rd.bytesRead <= rd.messageLength)

====
